---------------------------- MODULE Spec2Model ----------------------------
(***************************************************************************)
(* Model of packages/sdk/src/evm/constants/urls.ts: the RPC provider       *)
(* resolver and its process-wide cache (getChainProvider,                  *)
(* getChainIdFromNetwork, getProviderFromRpcUrl), the Transaction builder  *)
(* and its execution engine (simulate, estimateGasLimit, send, execute,    *)
(* sendGasless, transactionError) and the Transactions batch (executeAll). *)
(***************************************************************************)
EXTENDS Integers, Sequences, FiniteSets, TLC

VARIABLES
  RPC_PROVIDER_MAP,   \* the module-level provider cache: a set of [key, value] entries
  nextId,             \* identity of the next object a constructor creates
  handed,             \* identities of the connection handles returned so far
  firstBatch,         \* per (rpcUrl, chainId): the first batch (cached) handle returned
  last,               \* what the latest resolver call did and returned
  tx,                 \* a Transaction builder: the fields its constructor sets
  isBrowser,          \* what isBrowser() answers in this process
  op,                 \* the builder method a caller is awaiting, "idle" if none
  replies,            \* the replies the remote calls of the run in flight have received
  trace,              \* the remote calls of the run in flight, in the order issued
  outcome,            \* how the latest call of a builder method completed
  others,             \* the calls made before the latest while still at work
  encoded,            \* what the first and the latest call of encode() returned
  transactions,       \* Transactions.transactions
  pc,                 \* where the latest executeAll is: "idle", "loop", "returned" or "raised"
  index,              \* position of the loop of executeAll in the batch
  awaiting,           \* executeAll is suspended at `await transaction.execute()`
  started,            \* positions of the members whose execute() has been called
  touched,            \* positions of the members a remote call has been issued for
  settled,            \* how the execute() of each member so far completed
  receipts,           \* the local list of executeAll
  result,             \* what executeAll gave its caller
  earlier             \* the invocations of executeAll made before the latest, in its loop

pvars == <<RPC_PROVIDER_MAP, nextId, handed, firstBatch, last>>

\* the state of one builder and of the call in flight on it
tvars == <<tx, isBrowser, op, replies, trace, outcome, others, encoded>>

\* the state of a batch and of its executeAll
bvars == <<transactions, pc, index, awaiting, started, touched, settled, receipts, result,
           earlier>>

vars == <<pvars, tvars, bvars>>

-----------------------------------------------------------------------------
(* Bounds of the model.                                                    *)

\* At most this many connection objects are constructed in one run.
MaxHandles == 2

\* At most this many calls made before the latest one are followed.
MaxOthers == 1

-----------------------------------------------------------------------------
(* JavaScript values and the language operations the code applies to them. *)

Num(n) == [kind |-> "number", n |-> n, name |-> ""]
Fn(name) == [kind |-> "function", n |-> 0, name |-> name]
Undefined == [kind |-> "undefined", n |-> 0, name |-> ""]

\* Object.prototype, the one plain object the code comes to read.
ObjectPrototype == [kind |-> "object", n |-> 0, name |-> "Object.prototype"]

\* ToBoolean: 0 and undefined are falsy; every function, every object and
\* every other number is truthy.
Truthy(v) ==
  CASE v.kind = "number" -> v.n # 0
    [] v.kind = "function" -> TRUE
    [] v.kind = "object" -> TRUE
    [] OTHER -> FALSE

\* ToString, as a template literal or a property key applies it.
JsToString(v) ==
  CASE v.kind = "number" -> ToString(v.n)
    [] v.kind = "function" -> "function " \o v.name \o "() { [native code] }"
    [] v.kind = "object" -> "[object Object]"
    [] OTHER -> "undefined"

\* a || b
JsOr(a, b) == IF Truthy(a) THEN a ELSE b

\* The properties every object literal inherits from Object.prototype.
ObjectPrototypeKeys ==
  {"constructor", "__defineGetter__", "__defineSetter__", "hasOwnProperty",
   "__lookupGetter__", "__lookupSetter__", "isPrototypeOf", "propertyIsEnumerable",
   "toString", "valueOf", "__proto__", "toLocaleString"}

\* key in obj, for an object literal of numbers held as a function: own
\* properties and inherited ones alike.
JsIn(key, obj) == key \in DOMAIN obj \/ key \in ObjectPrototypeKeys

\* obj[key]: the own property, else the inherited one: `constructor` is the
\* function Object, `__proto__` is Object.prototype, every other inherited
\* property is the method of that name; undefined when there is none.
JsGet(obj, key) ==
  IF key \in DOMAIN obj THEN Num(obj[key])
  ELSE IF key = "constructor" THEN Fn("Object")
  ELSE IF key = "__proto__" THEN ObjectPrototype
  ELSE IF key \in ObjectPrototypeKeys THEN Fn(key)
  ELSE Undefined

LowerChar(c) ==
  CASE c = "H" -> "h" [] c = "T" -> "t" [] c = "P" -> "p"
    [] c = "S" -> "s" [] c = "W" -> "w" [] OTHER -> c

RECURSIVE LowerStr(_)
LowerStr(s) ==
  IF Len(s) = 0 THEN ""
  ELSE LowerChar(SubSeq(s, 1, 1)) \o LowerStr(SubSeq(s, 2, Len(s)))

\* Map.prototype.get on a Map held as a set of [key, value] entries:
\* <<>> for undefined, <<v>> for a hit.
MapGet(map, key) ==
  IF \E e \in map : e.key = key
  THEN <<(CHOOSE e \in map : e.key = key).value>>
  ELSE <<>>

\* Map.prototype.set: the entry under the key is replaced, never duplicated.
MapSet(map, key, value) ==
  {e \in map : e.key # key} \cup {[key |-> key, value |-> value]}

-----------------------------------------------------------------------------
(* Chain references, chain descriptors and SDK options.                    *)

NoChain == [chainId |-> 0, name |-> "", rpc |-> <<>>]

\* The three shapes of a ChainOrRpcUrl value.
StrNet(s) == [kind |-> "string", s |-> s, n |-> 0, chain |-> NoChain]
NumNet(n) == [kind |-> "number", s |-> "", n |-> n, chain |-> NoChain]
ChainNet(c) == [kind |-> "chain", s |-> "", n |-> 0, chain |-> c]

\* An entry of a chain's rpc list: a URL, or a URL template that ends in
\* an API key placeholder ${<key>_API_KEY}.
Rpc(base, key) == [base |-> base, key |-> key]

CHAIN_NAME_TO_ID ==
  [name \in {"avalanche-fuji", "avalanche-testnet", "fantom-testnet", "ethereum",
             "matic", "mumbai", "goerli", "polygon", "mainnet", "optimism",
             "optimism-goerli", "arbitrum", "arbitrum-goerli", "fantom",
             "avalanche", "binance", "binance-testnet", "hardhat", "localhost"} |->
    CASE name \in {"avalanche-fuji", "avalanche-testnet"} -> 43113
      [] name = "fantom-testnet" -> 4002
      [] name \in {"ethereum", "mainnet"} -> 1
      [] name \in {"matic", "polygon"} -> 137
      [] name = "mumbai" -> 80001
      [] name = "goerli" -> 5
      [] name = "optimism" -> 10
      [] name = "optimism-goerli" -> 420
      [] name = "arbitrum" -> 42161
      [] name = "arbitrum-goerli" -> 421613
      [] name = "fantom" -> 250
      [] name = "avalanche" -> 43114
      [] name = "binance" -> 56
      [] name = "binance-testnet" -> 97
      [] name = "hardhat" -> 31337
      [] OTHER -> 1337]

DEFAULT_API_KEY == "defaultkey"

\* The built-in chain table the options schema supplies when the caller
\* configures no supportedChains.
DefaultChains ==
  << [chainId |-> 1, name |-> "Ethereum Mainnet",
      rpc |-> <<Rpc("https://ethereum.rpc.thirdweb.com/", "THIRDWEB")>>],
     [chainId |-> 5, name |-> "Goerli",
      rpc |-> <<Rpc("https://eth-goerli.g.alchemy.com/v2/", "ALCHEMY"),
                Rpc("https://goerli.rpc.thirdweb.com/", "THIRDWEB")>>] >>

\* SDKOptionsSchema.parse: the options with their defaults filled in.
SDKOptionsSchemaParse(sdkOptions) ==
  [sdkOptions EXCEPT !.supportedChains =
     IF sdkOptions.chainsGiven THEN @ ELSE DefaultChains,
                     !.chainsGiven = TRUE]


-----------------------------------------------------------------------------
(* The provider resolver.                                                  *)

\* buildDefaultMap: chainId -> ChainInfo, filled by a left-to-right reduce
\* over supportedChains (a later chain with the same id overwrites).
RECURSIVE ReduceChains(_, _)
ReduceChains(chains, acc) ==
  IF chains = <<>> THEN acc
  ELSE ReduceChains(Tail(chains),
                    MapSet(acc, JsToString(Num(Head(chains).chainId)), Head(chains)))

buildDefaultMap(sdkOptions) ==
  LET options == SDKOptionsSchemaParse(sdkOptions)
  IN ReduceChains(options.supportedChains, {})

\* isChainConfig: neither a string nor a number (nor a signer or provider).
isChainConfig(network) == network.kind # "string" /\ network.kind # "number"

\* The regular expression /^(ws|http)s?:/i: the lower-cased first group of
\* the match, "" when the url does not match.
MatchScheme(url) ==
  LET l == LowerStr(SubSeq(url, 1, IF Len(url) < 6 THEN Len(url) ELSE 6))
      pre(n) == IF Len(l) >= n THEN SubSeq(l, 1, n) ELSE ""
  IN IF pre(3) = "ws:" \/ pre(4) = "wss:" THEN "ws"
     ELSE IF pre(5) = "http:" \/ pre(6) = "https:" THEN "http"
     ELSE ""

isRpcUrl(url) == MatchScheme(url) \in {"http", "https", "ws", "wss"}

\* The result of getChainIdFromNetwork: a value, or the thrown error.
getChainIdFromNetwork(network) ==
  IF isChainConfig(network)
  THEN [ok |-> TRUE, val |-> Num(network.chain.chainId), err |-> ""]
  ELSE IF network.kind = "number"
  THEN [ok |-> TRUE, val |-> Num(network.n), err |-> ""]
  ELSE IF JsIn(network.s, CHAIN_NAME_TO_ID)
  THEN [ok |-> TRUE, val |-> JsGet(CHAIN_NAME_TO_ID, network.s), err |-> ""]
  ELSE [ok |-> FALSE, val |-> Undefined, err |-> "Cannot resolve chainId"]

\* getChainRPC of @thirdweb-dev/chains: the first usable URL of the chain's
\* rpc list, a template being usable when its API key is configured; throws
\* on an undefined chain and when no URL is usable.
RECURSIVE FirstUsableRpc(_, _)
FirstUsableRpc(rpcs, keys) ==
  IF rpcs = <<>> THEN [ok |-> FALSE, url |-> "", substituted |-> FALSE]
  ELSE LET r == Head(rpcs)
       IN IF r.key = ""
          THEN [ok |-> TRUE, url |-> r.base, substituted |-> FALSE]
          ELSE IF keys[r.key] # ""
          THEN [ok |-> TRUE, url |-> r.base \o keys[r.key], substituted |-> TRUE]
          ELSE FirstUsableRpc(Tail(rpcs), keys)

getChainRPC(chain, keys) ==
  IF chain = <<>> THEN [ok |-> FALSE, url |-> "", substituted |-> FALSE]
  ELSE FirstUsableRpc(chain[1].rpc, keys)

NoProvider == [id |-> 0, kind |-> "none", url |-> ""]

\* new <kind>(url, ...): an object with an identity of its own.
NewProvider(id, kind, url) == [id |-> id, kind |-> kind, url |-> url]

\* The cache key `${rpcUrl}-${chainId || -1}`.
CacheKey(rpcUrl, chainId) == rpcUrl \o "-" \o JsToString(JsOr(chainId, Num(-1)))

\* ethers.getDefaultProvider(rpcUrl): a new connection for a ws(s)/http(s)
\* URL; anything else is taken as a network name and is unsupported.
getDefaultProvider(rpcUrl, map, id) ==
  IF MatchScheme(rpcUrl) # ""
  THEN [ok |-> TRUE, provider |-> NewProvider(id, "DefaultProvider", rpcUrl),
        map |-> map, nextId |-> id + 1, err |-> ""]
  ELSE [ok |-> FALSE, provider |-> NoProvider, map |-> map, nextId |-> id,
        err |-> "unsupported getDefaultProvider network"]

\* getProviderFromRpcUrl with the RPC_PROVIDER_MAP.set after the construction
\* left out.
getProviderFromRpcUrlNoSave(rpcUrl, chainId, map, id, ctorThrows) ==
  LET scheme == MatchScheme(rpcUrl)
      existingProvider == MapGet(map, CacheKey(rpcUrl, chainId))
      newProvider ==
        NewProvider(id,
                    IF Truthy(chainId) THEN "StaticJsonRpcBatchProvider"
                    ELSE "JsonRpcBatchProvider",
                    rpcUrl)
  IN IF scheme = "http"
     THEN IF existingProvider # <<>>
          THEN [ok |-> TRUE, provider |-> existingProvider[1], map |-> map,
                nextId |-> id, err |-> ""]
          ELSE IF ctorThrows
          THEN getDefaultProvider(rpcUrl, map, id)
          ELSE [ok |-> TRUE, provider |-> newProvider, map |-> map,
                nextId |-> id + 1, err |-> ""]
     ELSE IF scheme = "ws"
     THEN IF ctorThrows
          THEN getDefaultProvider(rpcUrl, map, id)
          ELSE [ok |-> TRUE, provider |-> NewProvider(id, "WebSocketProvider", rpcUrl),
                map |-> map, nextId |-> id + 1, err |-> ""]
     ELSE getDefaultProvider(rpcUrl, map, id)

\* getProviderFromRpcUrl with the check of the existing provider left out: it
\* constructs and saves on every http(s) call.
getProviderFromRpcUrlNoLookup(rpcUrl, chainId, map, id, ctorThrows) ==
  LET scheme == MatchScheme(rpcUrl)
      newProvider ==
        NewProvider(id,
                    IF Truthy(chainId) THEN "StaticJsonRpcBatchProvider"
                    ELSE "JsonRpcBatchProvider",
                    rpcUrl)
  IN IF scheme = "http"
     THEN IF ctorThrows
          THEN getDefaultProvider(rpcUrl, map, id)
          ELSE [ok |-> TRUE, provider |-> newProvider,
                map |-> MapSet(map, CacheKey(rpcUrl, chainId), newProvider),
                nextId |-> id + 1, err |-> ""]
     ELSE IF scheme = "ws"
     THEN IF ctorThrows
          THEN getDefaultProvider(rpcUrl, map, id)
          ELSE [ok |-> TRUE, provider |-> NewProvider(id, "WebSocketProvider", rpcUrl),
                map |-> map, nextId |-> id + 1, err |-> ""]
     ELSE getDefaultProvider(rpcUrl, map, id)

\* getProviderFromRpcUrl with the ws/wss case sharing the caching code of the
\* http/https case.
getProviderFromRpcUrlCacheAll(rpcUrl, chainId, map, id, ctorThrows) ==
  LET scheme == MatchScheme(rpcUrl)
      seralizedOpts == CacheKey(rpcUrl, chainId)
      existingProvider == MapGet(map, seralizedOpts)
      newProvider ==
        NewProvider(id,
                    IF scheme = "ws" THEN "WebSocketProvider"
                    ELSE IF Truthy(chainId) THEN "StaticJsonRpcBatchProvider"
                    ELSE "JsonRpcBatchProvider",
                    rpcUrl)
  IN IF scheme \in {"http", "ws"}
     THEN IF existingProvider # <<>>
          THEN [ok |-> TRUE, provider |-> existingProvider[1], map |-> map,
                nextId |-> id, err |-> ""]
          ELSE IF ctorThrows
          THEN getDefaultProvider(rpcUrl, map, id)
          ELSE [ok |-> TRUE, provider |-> newProvider,
                map |-> MapSet(map, seralizedOpts, newProvider),
                nextId |-> id + 1, err |-> ""]
     ELSE getDefaultProvider(rpcUrl, map, id)

\* getProviderFromRpcUrl without its try/catch: what a constructor throws
\* reaches the caller.
getProviderFromRpcUrlNoCatch(rpcUrl, chainId, map, id, ctorThrows) ==
  LET scheme == MatchScheme(rpcUrl)
      seralizedOpts == CacheKey(rpcUrl, chainId)
      existingProvider == MapGet(map, seralizedOpts)
      newProvider ==
        NewProvider(id,
                    IF Truthy(chainId) THEN "StaticJsonRpcBatchProvider"
                    ELSE "JsonRpcBatchProvider",
                    rpcUrl)
      thrown == [ok |-> FALSE, provider |-> NoProvider, map |-> map, nextId |-> id,
                 err |-> "constructor threw"]
  IN IF scheme = "http"
     THEN IF existingProvider # <<>>
          THEN [ok |-> TRUE, provider |-> existingProvider[1], map |-> map,
                nextId |-> id, err |-> ""]
          ELSE IF ctorThrows
          THEN thrown
          ELSE [ok |-> TRUE, provider |-> newProvider,
                map |-> MapSet(map, seralizedOpts, newProvider),
                nextId |-> id + 1, err |-> ""]
     ELSE IF scheme = "ws"
     THEN IF ctorThrows
          THEN thrown
          ELSE [ok |-> TRUE, provider |-> NewProvider(id, "WebSocketProvider", rpcUrl),
                map |-> map, nextId |-> id + 1, err |-> ""]
     ELSE getDefaultProvider(rpcUrl, map, id)

\* getProviderFromRpcUrl(rpcUrl, chainId) on cache `map` gets as far as a
\* `new` of a batch or WebSocket provider.
ReachesConstructor(rpcUrl, chainId, map) ==
  \/ MatchScheme(rpcUrl) = "ws"
  \/ MatchScheme(rpcUrl) = "http" /\ MapGet(map, CacheKey(rpcUrl, chainId)) = <<>>

\* getProviderFromRpcUrl(rpcUrl, chainId) run on cache `map`; ctorThrows
\* says whether the connection constructor it reaches throws.
getProviderFromRpcUrl(rpcUrl, chainId, map, id, ctorThrows) ==
  LET scheme == MatchScheme(rpcUrl)
      seralizedOpts == CacheKey(rpcUrl, chainId)
      existingProvider == MapGet(map, seralizedOpts)
      newProvider ==
        NewProvider(id,
                    IF Truthy(chainId) THEN "StaticJsonRpcBatchProvider"
                    ELSE "JsonRpcBatchProvider",
                    rpcUrl)
  IN IF scheme = "http"
     THEN IF existingProvider # <<>>
          THEN [ok |-> TRUE, provider |-> existingProvider[1], map |-> map,
                nextId |-> id, err |-> ""]
          ELSE IF ctorThrows
          THEN getDefaultProvider(rpcUrl, map, id)
          ELSE [ok |-> TRUE, provider |-> newProvider,
                map |-> MapSet(map, seralizedOpts, newProvider),
                nextId |-> id + 1, err |-> ""]
     ELSE IF scheme = "ws"
     THEN IF ctorThrows
          THEN getDefaultProvider(rpcUrl, map, id)
          ELSE [ok |-> TRUE, provider |-> NewProvider(id, "WebSocketProvider", rpcUrl),
                map |-> map, nextId |-> id + 1, err |-> ""]
     ELSE getDefaultProvider(rpcUrl, map, id)

\* The resolution of getChainProvider with its first branch, the one that
\* takes an RPC URL as it is, left out.
ResolutionNoBypass(network, sdkOptions) ==
  LET parsed == SDKOptionsSchemaParse(sdkOptions)
      options == IF isChainConfig(network)
                 THEN [parsed EXCEPT !.supportedChains = <<network.chain>> \o @]
                 ELSE parsed
      rpcMap == buildDefaultMap(options)
      resolved == getChainIdFromNetwork(network)
      chainId == resolved.val
      entry == MapGet(rpcMap, JsToString(chainId))
      thirdwebApiKey == IF options.thirdwebApiKey # "" THEN options.thirdwebApiKey
                        ELSE DEFAULT_API_KEY
      found == getChainRPC(entry, [THIRDWEB |-> thirdwebApiKey,
                                   INFURA |-> options.infuraApiKey,
                                   ALCHEMY |-> options.alchemyApiKey])
      rpcUrl == IF found.ok /\ found.url # "" THEN found.url
                ELSE "https://" \o JsToString(chainId) \o ".rpc.thirdweb.com/"
                     \o thirdwebApiKey
  IN IF ~resolved.ok
     THEN [ok |-> FALSE, rpcUrl |-> "", chainId |-> Undefined, entry |-> <<>>,
           lookedUp |-> FALSE, substituted |-> FALSE, err |-> resolved.err]
     ELSE [ok |-> TRUE, rpcUrl |-> rpcUrl, chainId |-> chainId, entry |-> entry,
           lookedUp |-> TRUE, substituted |-> found.substituted, err |-> ""]

\* The resolution of getChainProvider without the templated endpoint it
\* falls back to.
ResolutionNoFallback(network, sdkOptions) ==
  IF network.kind = "string" /\ isRpcUrl(network.s)
  THEN [ok |-> TRUE, rpcUrl |-> network.s, chainId |-> Undefined, entry |-> <<>>,
        lookedUp |-> FALSE, substituted |-> FALSE, err |-> ""]
  ELSE
    LET parsed == SDKOptionsSchemaParse(sdkOptions)
        options == IF isChainConfig(network)
                   THEN [parsed EXCEPT !.supportedChains = <<network.chain>> \o @]
                   ELSE parsed
        rpcMap == buildDefaultMap(options)
        resolved == getChainIdFromNetwork(network)
        chainId == resolved.val
        entry == MapGet(rpcMap, JsToString(chainId))
        thirdwebApiKey == IF options.thirdwebApiKey # "" THEN options.thirdwebApiKey
                          ELSE DEFAULT_API_KEY
        found == getChainRPC(entry, [THIRDWEB |-> thirdwebApiKey,
                                     INFURA |-> options.infuraApiKey,
                                     ALCHEMY |-> options.alchemyApiKey])
        fromTable == IF found.ok THEN found.url ELSE ""
        rpcUrl == fromTable
    IN IF ~resolved.ok
       THEN [ok |-> FALSE, rpcUrl |-> "", chainId |-> Undefined, entry |-> <<>>,
             lookedUp |-> FALSE, substituted |-> FALSE, err |-> resolved.err]
       ELSE IF rpcUrl = ""
       THEN [ok |-> FALSE, rpcUrl |-> "", chainId |-> chainId, entry |-> entry,
             lookedUp |-> TRUE, substituted |-> found.substituted,
             err |-> "No rpc url found"]
       ELSE [ok |-> TRUE, rpcUrl |-> rpcUrl, chainId |-> chainId, entry |-> entry,
             lookedUp |-> TRUE, substituted |-> found.substituted, err |-> ""]

\* What a getChainProvider call did before it reached getProviderFromRpcUrl:
\* the (rpcUrl, chainId) it resolved, the chain table entry it looked the URL
\* up in (<<>>: none, or undefined), and whether it performed the chain table
\* lookup and an API key substitution.
Resolution(network, sdkOptions) ==
  IF network.kind = "string" /\ isRpcUrl(network.s)
  THEN [ok |-> TRUE, rpcUrl |-> network.s, chainId |-> Undefined, entry |-> <<>>,
        lookedUp |-> FALSE, substituted |-> FALSE, err |-> ""]
  ELSE
    LET parsed == SDKOptionsSchemaParse(sdkOptions)
        options == IF isChainConfig(network)
                   THEN [parsed EXCEPT !.supportedChains = <<network.chain>> \o @]
                   ELSE parsed
        rpcMap == buildDefaultMap(options)
        resolved == getChainIdFromNetwork(network)
        chainId == resolved.val
        entry == MapGet(rpcMap, JsToString(chainId))
        thirdwebApiKey == IF options.thirdwebApiKey # "" THEN options.thirdwebApiKey
                          ELSE DEFAULT_API_KEY
        found == getChainRPC(entry, [THIRDWEB |-> thirdwebApiKey,
                                     INFURA |-> options.infuraApiKey,
                                     ALCHEMY |-> options.alchemyApiKey])
        fromTable == IF found.ok THEN found.url ELSE ""
        rpcUrl == IF fromTable = ""
                  THEN "https://" \o JsToString(chainId) \o ".rpc.thirdweb.com/"
                       \o thirdwebApiKey
                  ELSE fromTable
    IN IF ~resolved.ok
       THEN [ok |-> FALSE, rpcUrl |-> "", chainId |-> Undefined, entry |-> <<>>,
             lookedUp |-> FALSE, substituted |-> FALSE, err |-> resolved.err]
       ELSE IF rpcUrl = ""
       THEN [ok |-> FALSE, rpcUrl |-> "", chainId |-> chainId, entry |-> entry,
             lookedUp |-> TRUE, substituted |-> found.substituted,
             err |-> "No rpc url found"]
       ELSE [ok |-> TRUE, rpcUrl |-> rpcUrl, chainId |-> chainId, entry |-> entry,
             lookedUp |-> TRUE, substituted |-> found.substituted, err |-> ""]

\* getChainProvider(network, sdkOptions) run on cache `map`.
getChainProvider(network, sdkOptions, map, id, ctorThrows) ==
  LET r == Resolution(network, sdkOptions)
  IN IF r.ok
     THEN getProviderFromRpcUrl(r.rpcUrl, r.chainId, map, id, ctorThrows)
     ELSE [ok |-> FALSE, provider |-> NoProvider, map |-> map, nextId |-> id,
           err |-> r.err]

-----------------------------------------------------------------------------
(* The resolver's callers: the inputs the model draws from.                *)

Options(chains, given, thirdweb, alchemy) ==
  [supportedChains |-> chains, chainsGiven |-> given, thirdwebApiKey |-> thirdweb,
   infuraApiKey |-> "", alchemyApiKey |-> alchemy]

\* A caller's descriptor of chain 1 with an RPC endpoint of its own.
CustomMainnet ==
  [chainId |-> 1, name |-> "My Mainnet", rpc |-> <<Rpc("https://a.io", "")>>]

\* A configured descriptor of chain 1, served over a socket.
ConfiguredMainnet ==
  [chainId |-> 1, name |-> "Configured Mainnet", rpc |-> <<Rpc("wss://s.io", "")>>]

\* A caller's descriptor of a chain no table knows.
LocalChain ==
  [chainId |-> 777, name |-> "Local", rpc |-> <<Rpc("https://a.io", "")>>]

\* A caller's descriptor of a chain whose only endpoint needs an Alchemy key.
AlchemyOnlyChain ==
  [chainId |-> 42, name |-> "Keyed", rpc |-> <<Rpc("https://k.alchemy.com/v2/", "ALCHEMY")>>]

\* A caller's descriptor of a chain with no endpoint.
NoRpcChain == [chainId |-> 43, name |-> "Bare", rpc |-> <<>>]

\* Chain references the chain table has no usable RPC URL for (137 and 5
\* when the table is configured without them, the two descriptors above),
\* one it has a URL for, and two names the chain names inherit.
OffTableNetworkInputs ==
  {StrNet("polygon"), NumNet(5), ChainNet(AlchemyOnlyChain), ChainNet(NoRpcChain),
   StrNet("mainnet"), StrNet("constructor"), StrNet("__proto__")}

RpcUrlInputs == {"https://a.io", "wss://s.io", "ftp://x.io"}

ChainIdInputs == {Undefined, Num(0), Num(1)}

\* The http(s) URLs and the chain ids of the calls that look at the cache
\* key alone: no chain id, 0, the -1 the key puts for a missing id, and two
\* chain ids.
HttpUrlInputs == {"https://a.io", "http://b.io"}

KeyChainIdInputs == {Undefined, Num(0), Num(-1), Num(1), Num(5)}

NetworkInputs ==
  {StrNet("https://a.io"), StrNet("WSS://s.io"), StrNet("mainnet"), StrNet("toString"),
   StrNet("unknownnet"), NumNet(5), ChainNet(CustomMainnet), ChainNet(LocalChain)}

SdkOptionsInputs ==
  {Options(<<>>, FALSE, "", ""),
   Options(<<ConfiguredMainnet>>, TRUE, "mykey", "")}

Resolvers == {"getProviderFromRpcUrl", "getChainProvider"}

BatchKinds == {"StaticJsonRpcBatchProvider", "JsonRpcBatchProvider"}

\* The handle first recorded for (rpcUrl, chainId) in `firsts`, <<>> if none.
FirstOf(firsts, rpcUrl, chainId) ==
  IF \E e \in firsts : e.rpcUrl = rpcUrl /\ e.chainId = chainId
  THEN <<(CHOOSE e \in firsts : e.rpcUrl = rpcUrl /\ e.chainId = chainId).provider>>
  ELSE <<>>

NoCall ==
  [fn |-> "none", network |-> StrNet(""), sdkOptions |-> Options(<<>>, FALSE, "", ""),
   ok |-> FALSE, err |-> "", rpcUrl |-> "", chainId |-> Undefined, entry |-> <<>>,
   lookedUp |-> FALSE, substituted |-> FALSE, cached |-> FALSE, created |-> FALSE,
   provider |-> NoProvider, previous |-> NoProvider, threw |-> FALSE]

\* The state after a resolver call that reached getProviderFromRpcUrl with
\* (rpcUrl, chainId) and got result r, `call` being what is known of the call
\* before that.
Returned(call, rpcUrl, chainId, r) ==
  [map |-> r.map,
   nextId |-> r.nextId,
   handed |-> IF r.ok THEN handed \cup {r.provider.id} ELSE handed,
   firstBatch |->
     IF r.ok /\ r.provider.kind \in BatchKinds
        /\ FirstOf(firstBatch, rpcUrl, chainId) = <<>>
     THEN firstBatch \cup {[rpcUrl |-> rpcUrl, chainId |-> chainId,
                             provider |-> r.provider]}
     ELSE firstBatch,
   last |-> [call EXCEPT
     !.ok = r.ok, !.err = r.err, !.rpcUrl = rpcUrl, !.chainId = chainId,
     !.cached = MapGet(RPC_PROVIDER_MAP, CacheKey(rpcUrl, chainId)) # <<>>,
     !.created = r.nextId # nextId,
     !.provider = r.provider,
     \* the handle the call right before this one returned for the same
     \* (rpcUrl, chainId), if that call resolved the same pair
     !.previous = IF last.ok /\ last.fn \in Resolvers /\ r.ok
                     /\ last.rpcUrl = rpcUrl /\ last.chainId = chainId
                  THEN last.provider ELSE NoProvider]]

\* A caller invokes getProviderFromRpcUrl(rpcUrl, chainId) with an http(s)
\* URL and a chain id of KeyChainIdInputs; the constructor does not throw.
CallGetProviderFromHttpUrl ==
  \E rpcUrl \in HttpUrlInputs, chainId \in KeyChainIdInputs :
    LET r == getProviderFromRpcUrl(rpcUrl, chainId, RPC_PROVIDER_MAP, nextId, FALSE)
        after == Returned([NoCall EXCEPT !.fn = "getProviderFromRpcUrl",
                                         !.network = StrNet(rpcUrl)],
                          rpcUrl, chainId, r)
    IN /\ r.nextId <= MaxHandles + 1
       /\ RPC_PROVIDER_MAP' = after.map
       /\ nextId' = after.nextId
       /\ handed' = after.handed
       /\ firstBatch' = after.firstBatch
       /\ last' = after.last
       /\ UNCHANGED <<tvars, bvars>>

\* A caller invokes getProviderFromRpcUrl(rpcUrl, chainId).
CallGetProviderFromRpcUrl ==
  \E rpcUrl \in RpcUrlInputs, chainId \in ChainIdInputs, ctorThrows \in BOOLEAN :
    LET r == getProviderFromRpcUrl(rpcUrl, chainId, RPC_PROVIDER_MAP, nextId, ctorThrows)
        after == Returned([NoCall EXCEPT !.fn = "getProviderFromRpcUrl",
                                         !.network = StrNet(rpcUrl),
                                         !.threw = ctorThrows /\ ReachesConstructor(
                                                     rpcUrl, chainId, RPC_PROVIDER_MAP)],
                          rpcUrl, chainId, r)
    IN /\ r.nextId <= MaxHandles + 1
       /\ RPC_PROVIDER_MAP' = after.map
       /\ nextId' = after.nextId
       /\ handed' = after.handed
       /\ firstBatch' = after.firstBatch
       /\ last' = after.last
       /\ UNCHANGED <<tvars, bvars>>

\* A caller invokes getChainProvider(network, sdkOptions).
CallGetChainProvider ==
  \E network \in NetworkInputs, sdkOptions \in SdkOptionsInputs, ctorThrows \in BOOLEAN :
    LET res == Resolution(network, sdkOptions)
        r == getChainProvider(network, sdkOptions, RPC_PROVIDER_MAP, nextId, ctorThrows)
        after == Returned([NoCall EXCEPT !.fn = "getChainProvider",
                                         !.network = network,
                                         !.sdkOptions = sdkOptions,
                                         !.entry = res.entry,
                                         !.lookedUp = res.lookedUp,
                                         !.substituted = res.substituted,
                                         !.threw = res.ok /\ ctorThrows
                                                   /\ ReachesConstructor(res.rpcUrl,
                                                        res.chainId, RPC_PROVIDER_MAP)],
                          res.rpcUrl, res.chainId, r)
    IN /\ r.nextId <= MaxHandles + 1
       /\ RPC_PROVIDER_MAP' = after.map
       /\ nextId' = after.nextId
       /\ handed' = after.handed
       /\ firstBatch' = after.firstBatch
       /\ last' = after.last
       /\ UNCHANGED <<tvars, bvars>>

\* A caller invokes getChainProvider(network, sdkOptions) with a chain
\* reference of OffTableNetworkInputs.
CallGetChainProviderOffTable ==
  \E network \in OffTableNetworkInputs, sdkOptions \in SdkOptionsInputs, ctorThrows \in BOOLEAN :
    LET res == Resolution(network, sdkOptions)
        r == getChainProvider(network, sdkOptions, RPC_PROVIDER_MAP, nextId, ctorThrows)
        after == Returned([NoCall EXCEPT !.fn = "getChainProvider",
                                         !.network = network,
                                         !.sdkOptions = sdkOptions,
                                         !.entry = res.entry,
                                         !.lookedUp = res.lookedUp,
                                         !.substituted = res.substituted,
                                         !.threw = res.ok /\ ctorThrows
                                                   /\ ReachesConstructor(res.rpcUrl,
                                                        res.chainId, RPC_PROVIDER_MAP)],
                          res.rpcUrl, res.chainId, r)
    IN /\ r.nextId <= MaxHandles + 1
       /\ RPC_PROVIDER_MAP' = after.map
       /\ nextId' = after.nextId
       /\ handed' = after.handed
       /\ firstBatch' = after.firstBatch
       /\ last' = after.last
       /\ UNCHANGED <<tvars, bvars>>

\* A caller invokes getChainIdFromNetwork(network).
CallGetChainIdFromNetwork ==
  \E network \in NetworkInputs :
    LET r == getChainIdFromNetwork(network)
    IN /\ last' = [NoCall EXCEPT !.fn = "getChainIdFromNetwork", !.network = network,
                                 !.ok = r.ok, !.err = r.err, !.chainId = r.val]
       /\ UNCHANGED <<RPC_PROVIDER_MAP, nextId, handed, firstBatch>>
       /\ UNCHANGED <<tvars, bvars>>


-----------------------------------------------------------------------------
(* BigNumber: a non-negative integer hi * Radix + lo with 0 <= lo < Radix,  *)
(* so that amounts of wei beyond the range of a machine integer are exact. *)

Radix == 100000000

BN(hi, lo) == [hi |-> hi, lo |-> lo]

\* BigNumber.from(n) for a small number n.
BNFrom(n) == BN(n \div Radix, n % Radix)

\* ethers.utils.parseUnits(x, "gwei") for x given in tenths of a gwei.
ParseGweiTenths(tenths) == BN(tenths, 0)

BNAdd(a, b) == BN(a.hi + b.hi + (a.lo + b.lo) \div Radix, (a.lo + b.lo) % Radix)

\* a.mul(k) for a small factor k.
BNMul(a, k) == BN(a.hi * k + (a.lo * k) \div Radix, (a.lo * k) % Radix)

\* a.div(100), rounding down.
BNDiv100(a) == BN(a.hi \div 100, (a.hi % 100) * (Radix \div 100) + a.lo \div 100)

\* a.mul(b): the product, the low words multiplied in halves of four digits.
BNTimes(a, b) ==
  LET a1 == a.lo \div 10000
      a0 == a.lo % 10000
      b1 == b.lo \div 10000
      b0 == b.lo % 10000
      mid == a1 * b0 + a0 * b1
      low == (mid % 10000) * 10000 + a0 * b0
  IN BN(a.hi * b.hi * Radix + a.hi * b.lo + a.lo * b.hi + a1 * b1
          + mid \div 10000 + low \div Radix,
        low % Radix)

\* The last `width` decimal digits of n, zeros standing for those it lacks.
RECURSIVE Digits(_, _)
Digits(n, width) ==
  IF width = 0 THEN ""
  ELSE Digits(n \div 10, width - 1) \o ToString(n % 10)

\* s without the zeros at its end.
RECURSIVE StripZeros(_)
StripZeros(s) ==
  IF Len(s) > 0 /\ SubSeq(s, Len(s), Len(s)) = "0"
  THEN StripZeros(SubSeq(s, 1, Len(s) - 1))
  ELSE s

\* ethers.utils.formatEther(wei): the amount in ether, 18 decimals, the
\* zeros at the end dropped but for one.
formatEther(wei) ==
  LET whole == (wei.hi \div 100000) \div 100000
      fraction == StripZeros(Digits(wei.hi, 10) \o Digits(wei.lo, 8))
  IN ToString(whole) \o "." \o (IF fraction = "" THEN "0" ELSE fraction)

BNLt(a, b) == a.hi < b.hi \/ (a.hi = b.hi /\ a.lo < b.lo)

BNGt(a, b) == BNLt(b, a)

BNIsZero(a) == a.hi = 0 /\ a.lo = 0

-----------------------------------------------------------------------------
(* The Transaction builder.                                                *)

\* A field of CallOverrides the caller may leave unset.
\* A set field is a plain number or a BigNumber object.
Unset == [set |-> FALSE, boxed |-> FALSE, num |-> BN(0, 0)]
Some(num) == [set |-> TRUE, boxed |-> FALSE, num |-> num]
Boxed(num) == [set |-> TRUE, boxed |-> TRUE, num |-> num]

\* ToBoolean of an override field: unset and the number 0 are falsy, an
\* object is truthy whatever it holds.
IsSet(field) == field.set /\ (field.boxed \/ ~BNIsZero(field.num))

NoOverrides ==
  [from |-> "", value |-> Unset, gasLimit |-> Unset, gasPrice |-> Unset,
   maxFeePerGas |-> Unset, maxPriorityFeePerGas |-> Unset]

\* { ...a, ...b }: a field of b, where b has it, replaces the field of a.
Spread(a, b) ==
  [from |-> IF b.from # "" THEN b.from ELSE a.from,
   value |-> IF b.value.set THEN b.value ELSE a.value,
   gasLimit |-> IF b.gasLimit.set THEN b.gasLimit ELSE a.gasLimit,
   gasPrice |-> IF b.gasPrice.set THEN b.gasPrice ELSE a.gasPrice,
   maxFeePerGas |-> IF b.maxFeePerGas.set THEN b.maxFeePerGas ELSE a.maxFeePerGas,
   maxPriorityFeePerGas |-> IF b.maxPriorityFeePerGas.set THEN b.maxPriorityFeePerGas
                            ELSE a.maxPriorityFeePerGas]

\* An argument of the call: a value, or an array of encoded inner calls.
ValueArg(v) == [isArray |-> FALSE, items |-> <<>>, v |-> v]
ArrayArg(items) == [isArray |-> TRUE, items |-> items, v |-> ""]

\* The fields the constructor sets from its options.
Builder(method, args, overrides, gasless, parse) ==
  [method |-> method, args |-> args, overrides |-> overrides,
   gaslessOptions |-> gasless, parse |-> parse]

\* The gasless options of a builder: "none" when options.gasless is not
\* given, "empty" for an object with neither key, else the key it has.
\* send() with every gasless configuration taken as one of a relay.
UsesRelayAnyConfig(t) ==
  t.gaslessOptions # "none"

\* this.gaslessOptions && ("openzeppelin" in this.gaslessOptions ||
\* "biconomy" in this.gaslessOptions)
UsesRelay(t) ==
  t.gaslessOptions \in {"openzeppelin", "biconomy"}

\* The functions of the contract's interface.
ContractFunctions == {"mint", "multicall"}

\* this.contract.callStatic[this.method], estimateGas[...], functions[...]
HasFunction(t) == t.method \in ContractFunctions

-----------------------------------------------------------------------------
(* The execution engine. A run of an async method is replayed from the     *)
(* replies its remote calls have had so far: it either stops at the        *)
(* await of a call not yet answered (st = "wait", at = the call site) or   *)
(* has completed, with a value (st = "ok") or a thrown value (st = "err"). *)

NoVal == [kind |-> "none", via |-> "", num |-> BN(0, 0), overrides |-> NoOverrides,
          args |-> <<>>, data |-> "", ether |-> ""]
NoErr == [kind |-> "none", reason |-> "", from |-> "", to |-> "", method |-> "",
          data |-> "", network |-> 0, value |-> BN(0, 0), hash |-> "",
          contractName |-> FALSE, sources |-> FALSE, promise |-> "", raised |-> ""]

Wait(site) == [st |-> "wait", at |-> site, val |-> NoVal, err |-> NoErr]
Return(val) == [st |-> "ok", at |-> "", val |-> val, err |-> NoErr]
Throw(err) == [st |-> "err", at |-> "", val |-> NoVal, err |-> err]

\* The raw exception of the failed remote call `site`.
RawError(site) == [NoErr EXCEPT !.kind = "Raw", !.reason = site]

\* new Error(message)
PlainError(message) == [NoErr EXCEPT !.kind = "Error", !.reason = message]

\* The promise an un-awaited transactionError(error) returns, thrown in the
\* place of the error: pending when thrown, the diagnosis of `reason` going
\* on behind it. Once it has settled, promise = "fulfilled" and the fields
\* are those of the TransactionError it resolved to, or promise = "rejected"
\* and raised = the remote call whose exception it rejected with.
PromiseOfError(reason) ==
  [NoErr EXCEPT !.kind = "Promise", !.reason = reason, !.promise = "pending"]

\* await of remote call `site`: the run stops there until the reply is in.
\* A reply in `got` has, next to what the remote call answered, `this`: the
\* fields of the builder as the code resumed by the reply finds them.
Answered(got, site) == site \in DOMAIN got

\* The await of a promise that has settled already: no remote call answers
\* it, the run is resumed once the code that is running has returned.
\* Tick is the await of getGasOverrides() in send(), in the browser.
Tick == "tick"

\* await (this.overrides.from || this.getSignerAddress()) when from is set:
\* the awaited value is no promise, and the run is resumed a tick later all
\* the same. In sendGasless() and in transactionError().
GaslessFromTick == "gasless.from"
DiagnosisFromTick == "te.from"

Ticks == {Tick, GaslessFromTick, DiagnosisFromTick}

\* The reply v as the run receives it, the builder being t at that moment.
Received(v, t) ==
  [ok |-> v.ok, flag |-> v.flag, id |-> v.id, num |-> v.num, s |-> v.s, this |-> t]

\* functionError()
functionError == [NoErr EXCEPT !.kind = "FunctionNotFound"]

\* this.contract.address
ContractAddress == "0xC"

\* The items of an array argument, encoded one after the other.
RECURSIVE EncodeItems(_)
EncodeItems(items) ==
  IF items = <<>> THEN ""
  ELSE "<" \o Head(items) \o ">" \o EncodeItems(Tail(items))

\* The arguments of a call, encoded one after the other.
RECURSIVE EncodeArgs(_)
EncodeArgs(args) ==
  IF args = <<>> THEN ""
  ELSE (IF Head(args).isArray THEN "[" \o EncodeItems(Head(args).items) \o "]"
        ELSE "(" \o Head(args).v \o ")")
       \o EncodeArgs(Tail(args))

\* this.contract.interface.encodeFunctionData(method, args): the selector of
\* the method, then the encoded arguments.
encodeFunctionData(method, args) == method \o ":" \o EncodeArgs(args)

\* encode()
encode(t) == encodeFunctionData(t.method, t.args)

\* error.transactionHash || error.transaction?.hash ||
\* error.receipt?.transactionHash: the hash the diagnosed error carries, ""
\* if it carries none. The error of a failed remote call is its reply; an
\* error made with new Error(message) carries none.
TransactionHash(got, reason) ==
  IF reason \in DOMAIN got THEN got[reason].s ELSE ""

\* K applied to the value of e, e being evaluated once.
Bind(e, K(_)) == CHOOSE y \in {K(x) : x \in {e}} : TRUE

\* const v = await p; K(v): the wait for p, and a rejection of p, are the
\* caller's own; K is given the completion of p.
Then(p, K(_)) == Bind(p, LAMBDA v : IF v.st # "ok" THEN v ELSE K(v))

\* throw await p: the awaited value is thrown.
ThrowAwait(p) == Then(p, LAMBDA v : [v EXCEPT !.st = "err"])

\* const from = await (this.overrides.from || this.getSignerAddress()), after
\* the reply of `before`: the builder as the code that follows the await
\* finds it. this.overrides.from is read on the reply of `before`; if it is
\* not set the signer is asked, at `asked`, and if it is set the await lasts
\* the tick `tick`.
thisAfterFrom(got, before, asked, tick) ==
  IF got[before].this.overrides.from = "" THEN got[asked].this
  ELSE got[tick].this

\* transactionError(error) with the catch around the enrichment removed.
transactionErrorNoCatch(t, got, reason) ==
  IF ~Answered(got, "te.getNetwork") THEN Wait("te.getNetwork")
  ELSE IF ~got["te.getNetwork"].ok THEN Throw(RawError("te.getNetwork"))
  ELSE Bind(got["te.getNetwork"].this.overrides.from, LAMBDA from :
  IF from = "" /\ ~Answered(got, "te.getAddress")
  THEN Wait("te.getAddress")
  ELSE IF from = "" /\ ~got["te.getAddress"].ok
  THEN Throw(RawError("te.getAddress"))
  ELSE IF from # "" /\ ~Answered(got, DiagnosisFromTick)
  THEN Wait(DiagnosisFromTick)
  ELSE Bind(thisAfterFrom(got, "te.getNetwork", "te.getAddress", DiagnosisFromTick),
            LAMBDA this :
  IF ~Answered(got, "te.fetchMetadata") THEN Wait("te.fetchMetadata")
  ELSE IF ~got["te.fetchMetadata"].ok THEN Throw(RawError("te.fetchMetadata"))
  ELSE IF got["te.fetchMetadata"].flag /\ ~Answered(got, "te.fetchSources")
  THEN Wait("te.fetchSources")
  ELSE IF got["te.fetchMetadata"].flag /\ ~got["te.fetchSources"].ok
  THEN Throw(RawError("te.fetchSources"))
  ELSE [st |-> "ok", at |-> "", val |-> NoVal,
        err |-> [NoErr EXCEPT !.kind = "TransactionError", !.reason = reason,
                              !.from = IF from # "" THEN from
                                       ELSE got["te.getAddress"].s,
                              !.to = ContractAddress,
                              !.method = t.method,
                              !.data = encode(t),
                              !.network = got["te.getNetwork"].id,
                              !.value = IF IsSet(this.overrides.value)
                                        THEN this.overrides.value.num ELSE BN(0, 0),
                              !.hash = TransactionHash(got, reason),
                              !.contractName = got["te.fetchMetadata"].id # 0,
                              !.sources = got["te.fetchMetadata"].flag]]))

\* transactionError(error): the async function's completion; its value, the
\* TransactionError built, is carried in `err`. `reason` is what
\* parseRevertReason reads: the error being diagnosed.
transactionError(t, got, reason) ==
  IF ~Answered(got, "te.getNetwork") THEN Wait("te.getNetwork")
  ELSE IF ~got["te.getNetwork"].ok THEN Throw(RawError("te.getNetwork"))
  ELSE IF got["te.getNetwork"].this.overrides.from = ""
          /\ ~Answered(got, "te.getAddress")
  THEN Wait("te.getAddress")
  ELSE IF got["te.getNetwork"].this.overrides.from = "" /\ ~got["te.getAddress"].ok
  THEN Throw(RawError("te.getAddress"))
  ELSE IF got["te.getNetwork"].this.overrides.from # ""
          /\ ~Answered(got, DiagnosisFromTick)
  THEN Wait(DiagnosisFromTick)
  ELSE IF ~Answered(got, "te.fetchMetadata") THEN Wait("te.fetchMetadata")
  ELSE LET metadata == got["te.fetchMetadata"]
           from == got["te.getNetwork"].this.overrides.from
           value == thisAfterFrom(got, "te.getNetwork", "te.getAddress",
                                  DiagnosisFromTick).overrides.value
           built(name, sources) ==
             [st |-> "ok", at |-> "", val |-> NoVal,
              err |-> [kind |-> "TransactionError", reason |-> reason,
                       from |-> IF from # "" THEN from
                                ELSE got["te.getAddress"].s,
                       to |-> ContractAddress,
                       method |-> t.method,
                       data |-> encode(t),
                       network |-> got["te.getNetwork"].id,
                       value |-> IF IsSet(value) THEN value.num
                                 ELSE BN(0, 0),
                       hash |-> TransactionHash(got, reason),
                       contractName |-> name, sources |-> sources,
                       promise |-> "", raised |-> ""]]
       IN IF ~metadata.ok THEN built(FALSE, FALSE)
          ELSE IF ~metadata.flag THEN built(metadata.id # 0, FALSE)
          ELSE IF ~Answered(got, "te.fetchSources") THEN Wait("te.fetchSources")
          ELSE built(metadata.id # 0, got["te.fetchSources"].ok)

\* simulate() without the check of the method.
simulateUnchecked(t, got) ==
  IF ~Answered(got, "callStatic") THEN Wait("callStatic")
  ELSE IF got["callStatic"].ok
  THEN Return([NoVal EXCEPT !.kind = "result"])
  ELSE ThrowAwait(transactionError(t, got, "callStatic"))

\* simulate()
simulate(t, got) ==
  IF ~HasFunction(t) THEN Throw(functionError)
  ELSE IF ~Answered(got, "callStatic") THEN Wait("callStatic")
  ELSE IF got["callStatic"].ok
  THEN Return([NoVal EXCEPT !.kind = "result"])
  ELSE ThrowAwait(transactionError(t, got, "callStatic"))

\* estimateGasLimit(). Its last statement calls transactionError(err) and
\* throws the promise it returns without awaiting it: the diagnosis has made
\* its first remote call by then and goes on after the method has rejected.
estimateGasLimit(t, got) ==
  IF ~HasFunction(t) THEN Throw(functionError)
  ELSE IF ~Answered(got, "estimateGas") THEN Wait("estimateGas")
  ELSE IF got["estimateGas"].ok
  THEN Return([NoVal EXCEPT !.kind = "gasLimit", !.num = got["estimateGas"].num])
  ELSE Then(simulate(t, got), LAMBDA simulated : Throw(PromiseOfError("estimateGas")))

\* The diagnosis a completed run has left going on, <<>> if none: the reason
\* it diagnoses.
Detached(run) ==
  IF run.st = "err" /\ run.err.kind = "Promise" /\ run.err.promise = "pending"
  THEN <<run.err.reason>>
  ELSE <<>>

\* The remote calls made in the step that completes `run` and awaited by
\* nobody: the first call of the diagnosis left going on.
DetachedCalls(t, got, run) ==
  IF Detached(run) = <<>> THEN <<>>
  ELSE Bind(transactionError(t, got, Detached(run)[1]), LAMBDA diagnosis :
         IF diagnosis.st = "wait" THEN <<diagnosis.at>> ELSE <<>>)

\* The thrown promise `err` once the diagnosis behind it has got as far as
\* `diagnosis`.
PromiseSettled(err, diagnosis) ==
  IF diagnosis.st = "wait" THEN err
  ELSE IF diagnosis.st = "ok"
  THEN [diagnosis.err EXCEPT !.kind = "Promise", !.promise = "fulfilled"]
  ELSE [err EXCEPT !.promise = "rejected", !.raised = diagnosis.err.reason]

\* ChainId.Polygon and ChainId.Mumbai
Polygon == 137
Mumbai == 80001

\* getPreferredPriorityFee without its lower limit.
getPreferredPriorityFeeNoMin(defaultPriorityFeePerGas) ==
  LET extraTip == BNMul(BNDiv100(defaultPriorityFeePerGas), 10)
      maxGasPrice == ParseGweiTenths(3000)
  IN Bind(BNAdd(defaultPriorityFeePerGas, extraTip), LAMBDA txGasPrice :
       IF BNGt(txGasPrice, maxGasPrice) THEN maxGasPrice ELSE txGasPrice)

\* getPreferredPriorityFee(defaultPriorityFeePerGas)
getPreferredPriorityFee(defaultPriorityFeePerGas) ==
  LET extraTip == BNMul(BNDiv100(defaultPriorityFeePerGas), 10)
      maxGasPrice == ParseGweiTenths(3000)
      minGasPrice == ParseGweiTenths(25)
  IN Bind(BNAdd(defaultPriorityFeePerGas, extraTip), LAMBDA txGasPrice :
       IF BNGt(txGasPrice, maxGasPrice) THEN maxGasPrice
       ELSE IF BNLt(txGasPrice, minGasPrice) THEN minGasPrice
       ELSE txGasPrice)

\* getGasPrice() without its upper limit.
BufferedGasPriceNoMax(gasPrice) ==
  BNAdd(gasPrice, BNMul(BNDiv100(gasPrice), 10))

\* getGasPrice(), after provider.getGasPrice() has returned gasPrice.
BufferedGasPrice(gasPrice) ==
  LET maxGasPrice == ParseGweiTenths(3000)
      extraTip == BNMul(BNDiv100(gasPrice), 10)
  IN Bind(BNAdd(gasPrice, extraTip), LAMBDA txGasPrice :
       IF BNGt(txGasPrice, maxGasPrice) THEN maxGasPrice ELSE txGasPrice)

\* getGasPrice()
getGasPrice(got) ==
  IF ~Answered(got, "getGasPrice") THEN Wait("getGasPrice")
  ELSE IF ~got["getGasPrice"].ok THEN Throw(RawError("getGasPrice"))
  ELSE Return([NoVal EXCEPT !.kind = "gasPrice",
                            !.num = BufferedGasPrice(got["getGasPrice"].num)])

\* estimateGasCost()
estimateGasCost(t, got) ==
  Then(estimateGasLimit(t, got), LAMBDA gasLimit :
    Then(getGasPrice(got), LAMBDA gasPrice :
      Bind(BNTimes(gasLimit.val.num, gasPrice.val.num), LAMBDA gasCost :
        Return([NoVal EXCEPT !.kind = "gasCost", !.ether = formatEther(gasCost),
                             !.num = gasCost]))))

\* getGasOverrides(); browser is what isBrowser() answers in this process.
\* A fee-data reply has flag = both fee fields present, num = the priority
\* fee; a block reply has flag = block with a base fee, num = the base fee.
getGasOverrides(browser, got) ==
  LET gas(overrides) == Return([NoVal EXCEPT !.kind = "gasOverrides",
                                            !.overrides = overrides])
  IN
  IF browser THEN gas(NoOverrides)
  ELSE IF ~Answered(got, "getFeeData") THEN Wait("getFeeData")
  ELSE IF ~got["getFeeData"].ok THEN Throw(RawError("getFeeData"))
  ELSE IF got["getFeeData"].flag
  THEN IF ~Answered(got, "gas.getNetwork") THEN Wait("gas.getNetwork")
       ELSE IF ~got["gas.getNetwork"].ok THEN Throw(RawError("gas.getNetwork"))
       ELSE IF ~Answered(got, "getBlock") THEN Wait("getBlock")
       ELSE IF ~got["getBlock"].ok THEN Throw(RawError("getBlock"))
       ELSE LET chainId == got["gas.getNetwork"].id
                block == got["getBlock"]
                baseBlockFee == IF block.flag THEN block.num ELSE ParseGweiTenths(10)
                station == chainId = Mumbai \/ chainId = Polygon
                finish(defaultPriorityFee) ==
                  Bind(getPreferredPriorityFee(defaultPriorityFee),
                       LAMBDA maxPriorityFeePerGas :
                         LET baseMaxFeePerGas == BNMul(baseBlockFee, 2)
                             maxFeePerGas == BNAdd(baseMaxFeePerGas, maxPriorityFeePerGas)
                         IN gas([NoOverrides EXCEPT
                                   !.maxFeePerGas = Boxed(maxFeePerGas),
                                   !.maxPriorityFeePerGas = Boxed(maxPriorityFeePerGas)]))
            IN IF ~station THEN finish(got["getFeeData"].num)
               ELSE IF ~Answered(got, "getPolygonGasPriorityFee")
               THEN Wait("getPolygonGasPriorityFee")
               ELSE IF ~got["getPolygonGasPriorityFee"].ok
               THEN Throw(RawError("getPolygonGasPriorityFee"))
               ELSE finish(got["getPolygonGasPriorityFee"].num)
  ELSE Then(getGasPrice(got), LAMBDA price :
              gas([NoOverrides EXCEPT !.gasPrice = Boxed(price.val.num)]))

\* ethers.utils.solidityPack(["bytes", "address"], [tx, from])
solidityPack(bytes, address) == bytes \o address

\* The condition under which sendGasless rewrites the first argument.
PacksMulticall(t) ==
  /\ t.method = "multicall"
  /\ Len(t.args) > 0
  /\ t.args[1].isArray
  /\ Len(t.args[1].items) > 0

\* The arguments of sendGasless with the first argument left as it is.
gaslessArgsAsGiven(t, got) == t.args

\* The arguments sendGasless encodes and hands to the relay: a copy of
\* this.args, the inner calls of a multicall packed with the signer's address.
gaslessArgs(t, got) ==
  IF PacksMulticall(t) /\ Answered(got, "gasless.pack.getAddress")
  THEN [t.args EXCEPT ![1] =
          ArrayArg([i \in 1..Len(t.args[1].items) |->
                      solidityPack(t.args[1].items[i],
                                   got["gasless.pack.getAddress"].s)])]
  ELSE t.args

\* The gas limit of sendGasless without the 500k it sets for a low estimate.
gaslessGasLimitNoFloor(got, overrides) ==
  LET computed == IF Answered(got, "gasless.estimateGas")
                     /\ got["gasless.estimateGas"].ok
                  THEN BNMul(got["gasless.estimateGas"].num, 2)
                  ELSE BNFrom(0)
  IN IF IsSet(overrides.gasLimit) /\ BNGt(overrides.gasLimit.num, computed)
     THEN overrides.gasLimit.num
     ELSE computed

\* The gas limit sendGasless puts in the descriptor, from the reply to its
\* estimateGas call and this.overrides.
gaslessGasLimit(got, overrides) ==
  LET computed == IF Answered(got, "gasless.estimateGas")
                     /\ got["gasless.estimateGas"].ok
                  THEN BNMul(got["gasless.estimateGas"].num, 2)
                  ELSE BNFrom(0)
      floored == IF BNLt(computed, BNFrom(100000)) THEN BNFrom(500000) ELSE computed
  IN IF IsSet(overrides.gasLimit) /\ BNGt(overrides.gasLimit.num, floored)
     THEN overrides.gasLimit.num
     ELSE floored

\* sendGasless() without its rejection of a value.
sendGaslessNoValueCheck(t, got) ==
  LET packs == PacksMulticall(t)
      args == gaslessArgs(t, got)
      asked == got["gasless.getNetwork"].this.overrides.from = ""
      value == thisAfterFrom(got, "gasless.getNetwork", "gasless.getAddress",
                             GaslessFromTick).overrides.value
      overrides == got["gasless.estimateGas"].this.overrides
  IN
  IF packs /\ ~Answered(got, "gasless.pack.getAddress")
  THEN Wait("gasless.pack.getAddress")
  ELSE IF packs /\ ~got["gasless.pack.getAddress"].ok
  THEN Throw(RawError("gasless.pack.getAddress"))
  ELSE IF ~Answered(got, "gasless.getNetwork") THEN Wait("gasless.getNetwork")
  ELSE IF ~got["gasless.getNetwork"].ok THEN Throw(RawError("gasless.getNetwork"))
  ELSE IF asked /\ ~Answered(got, "gasless.getAddress")
  THEN Wait("gasless.getAddress")
  ELSE IF asked /\ ~got["gasless.getAddress"].ok
  THEN Throw(RawError("gasless.getAddress"))
  ELSE IF ~asked /\ ~Answered(got, GaslessFromTick) THEN Wait(GaslessFromTick)
  ELSE IF ~Answered(got, "gasless.estimateGas") THEN Wait("gasless.estimateGas")
  ELSE IF ~Answered(got, "relay") THEN Wait("relay")
  ELSE IF ~got["relay"].ok THEN Throw(RawError("relay"))
  ELSE IF ~Answered(got, "getTransaction") THEN Wait("getTransaction")
  ELSE IF ~got["getTransaction"].ok THEN Throw(RawError("getTransaction"))
  ELSE Return([kind |-> "tx", ether |-> "", via |-> "relay",
               num |-> gaslessGasLimit(got, overrides),
               overrides |-> overrides, args |-> args,
               data |-> encodeFunctionData(t.method, args)])

\* sendGasless(). A signer-address reply has s = the address; the network
\* reply has id = the chain id; the estimate reply has num = the estimate.
\* this.overrides is read on the reply of the network for `from`, after the
\* await of `from` for the value, and on the reply of the estimate for the
\* gas limit and the callOverrides handed to the relay.
sendGasless(t, got) ==
  LET packs == PacksMulticall(t)
      args == gaslessArgs(t, got)
      asked == got["gasless.getNetwork"].this.overrides.from = ""
      value == thisAfterFrom(got, "gasless.getNetwork", "gasless.getAddress",
                             GaslessFromTick).overrides.value
      overrides == got["gasless.estimateGas"].this.overrides
  IN
  IF packs /\ ~Answered(got, "gasless.pack.getAddress")
  THEN Wait("gasless.pack.getAddress")
  ELSE IF packs /\ ~got["gasless.pack.getAddress"].ok
  THEN Throw(RawError("gasless.pack.getAddress"))
  ELSE IF ~Answered(got, "gasless.getNetwork") THEN Wait("gasless.getNetwork")
  ELSE IF ~got["gasless.getNetwork"].ok THEN Throw(RawError("gasless.getNetwork"))
  ELSE IF asked /\ ~Answered(got, "gasless.getAddress")
  THEN Wait("gasless.getAddress")
  ELSE IF asked /\ ~got["gasless.getAddress"].ok
  THEN Throw(RawError("gasless.getAddress"))
  ELSE IF ~asked /\ ~Answered(got, GaslessFromTick) THEN Wait(GaslessFromTick)
  ELSE IF IsSet(value) /\ BNGt(value.num, BNFrom(0))
  THEN Throw(PlainError("Cannot send native token value with gasless transaction"))
  ELSE IF ~Answered(got, "gasless.estimateGas") THEN Wait("gasless.estimateGas")
  ELSE IF ~Answered(got, "relay") THEN Wait("relay")
  ELSE IF ~got["relay"].ok THEN Throw(RawError("relay"))
  ELSE IF ~Answered(got, "getTransaction") THEN Wait("getTransaction")
  ELSE IF ~got["getTransaction"].ok THEN Throw(RawError("getTransaction"))
  ELSE Return([kind |-> "tx", ether |-> "", via |-> "relay",
               num |-> gaslessGasLimit(got, overrides),
               overrides |-> overrides, args |-> args,
               data |-> encodeFunctionData(t.method, args)])

\* The remote call this.provider.getBalance(address).
BalanceOf(address) == "getBalance(" \o address \o ")"

\* send(), from the submission on, with a catch that looks at a balance of
\* zero only.
submitZeroOnly(t, got, overrides) ==
  IF ~Answered(got, "submit") THEN Wait("submit")
  ELSE IF got["submit"].ok
  THEN Return([kind |-> "tx", ether |-> "", via |-> "direct", num |-> overrides.gasLimit.num,
               overrides |-> overrides, args |-> t.args,
               data |-> encodeFunctionData(t.method, t.args)])
  ELSE IF overrides.from = "" /\ ~Answered(got, "send.getAddress")
  THEN Wait("send.getAddress")
  ELSE IF overrides.from = "" /\ ~got["send.getAddress"].ok
  THEN Throw(RawError("send.getAddress"))
  ELSE LET from == IF overrides.from # "" THEN overrides.from
                   ELSE got["send.getAddress"].s
       IN IF ~Answered(got, BalanceOf(from)) THEN Wait(BalanceOf(from))
          ELSE IF ~got[BalanceOf(from)].ok THEN Throw(RawError(BalanceOf(from)))
          ELSE IF BNIsZero(got[BalanceOf(from)].num)
          THEN ThrowAwait(transactionError(t, got, "insufficient funds"))
          ELSE ThrowAwait(transactionError(t, got, "submit"))

\* send(), from the submission on: the try/catch around the contract call,
\* `overrides` being the overrides it has put together.
submit(t, got, overrides) ==
  IF ~Answered(got, "submit") THEN Wait("submit")
  ELSE IF got["submit"].ok
  THEN Return([kind |-> "tx", ether |-> "", via |-> "direct", num |-> overrides.gasLimit.num,
               overrides |-> overrides, args |-> t.args,
               data |-> encodeFunctionData(t.method, t.args)])
  ELSE IF overrides.from = "" /\ ~Answered(got, "send.getAddress")
  THEN Wait("send.getAddress")
  ELSE IF overrides.from = "" /\ ~got["send.getAddress"].ok
  THEN Throw(RawError("send.getAddress"))
  ELSE LET from == IF overrides.from # "" THEN overrides.from
                   ELSE got["send.getAddress"].s
           value == IF IsSet(overrides.value) THEN overrides.value.num ELSE BNFrom(0)
       IN IF ~Answered(got, BalanceOf(from)) THEN Wait(BalanceOf(from))
          ELSE IF ~got[BalanceOf(from)].ok THEN Throw(RawError(BalanceOf(from)))
          ELSE LET balance == got[BalanceOf(from)].num
               IN IF BNIsZero(balance)
                     \/ (IsSet(overrides.value) /\ BNLt(balance, value))
                  THEN ThrowAwait(transactionError(t, got, "insufficient funds"))
                  ELSE ThrowAwait(transactionError(t, got, "submit"))

\* The builder as send() finds it when its await of getGasOverrides() is
\* over: on the reply of the last call getGasOverrides() made, or, in the
\* browser, where it makes none and has returned {} at once, a tick after
\* send() was called.
thisAfterGasOverrides(browser, got) ==
  IF browser THEN got[Tick].this
  ELSE IF ~got["getFeeData"].flag THEN got["getGasPrice"].this
  ELSE IF got["gas.getNetwork"].id \in {Mumbai, Polygon}
  THEN got["getPolygonGasPriorityFee"].this
  ELSE got["getBlock"].this

\* send(). this.overrides is read once, when getGasOverrides() has returned.
send(t, browser, got) ==
  IF ~HasFunction(t) THEN Throw(functionError)
  ELSE IF UsesRelay(t) THEN sendGasless(t, got)
  ELSE
  Then(getGasOverrides(browser, got), LAMBDA gasOverrides :
    IF browser /\ ~Answered(got, Tick) THEN Wait(Tick)
    ELSE
    Bind(Spread(gasOverrides.val.overrides,
                thisAfterGasOverrides(browser, got).overrides), LAMBDA overrides :
      IF IsSet(overrides.gasLimit) THEN submit(t, got, overrides)
      ELSE Then(estimateGasLimit(t, got), LAMBDA estimated :
             Bind([overrides EXCEPT !.gasLimit = Boxed(estimated.val.num)],
                  LAMBDA filled : submit(t, got, filled)))))

\* execute() raising the diagnosis of the wait failure at once.
executeNoSimulate(t, browser, got) ==
  Then(send(t, browser, got), LAMBDA sent :
    IF ~Answered(got, "wait") THEN Wait("wait")
    ELSE IF ~got["wait"].ok
    THEN ThrowAwait(transactionError(t, got, "wait"))
    ELSE IF got["wait"].this.parse THEN Return([sent.val EXCEPT !.kind = "parsed"])
    ELSE Return([sent.val EXCEPT !.kind = "receipt"]))

\* execute(). this.parse is read on the reply of tx.wait().
execute(t, browser, got) ==
  Then(send(t, browser, got), LAMBDA sent :
    IF ~Answered(got, "wait") THEN Wait("wait")
    ELSE IF ~got["wait"].ok
    THEN Then(simulate(t, got), LAMBDA simulated :
           ThrowAwait(transactionError(t, got, "wait")))
    ELSE IF got["wait"].this.parse THEN Return([sent.val EXCEPT !.kind = "parsed"])
    ELSE Return([sent.val EXCEPT !.kind = "receipt"]))

\* this.args after a run of method m with the inner calls packed in
\* this.args itself.
thisArgsPackedInPlace(m, t, got) ==
  IF m \in {"send", "execute"} /\ HasFunction(t)
     /\ UsesRelay(t)
  THEN gaslessArgs(t, got)
  ELSE t.args

\* this.args after a run of method m: sendGasless packs the inner calls in
\* a copy ([...this.args], and map builds a new inner array); every other
\* method only reads this.args.
thisArgsAfter(m, t, got) ==
  t.args

\* The async methods a caller can invoke on a builder.
Methods ==
  {"simulate", "estimateGasLimit", "estimateGasCost", "send", "execute", "getGasPrice"}

\* The methods of the fee policy: getGasOverrides(), which send() calls and
\* which is private to the type checker only, and getGasPrice().
PolicyMethods == {"getGasOverrides", "getGasPrice"}

\* The run of method m of builder t, replayed from replies r.
Run(m, t, browser, r) ==
  CASE m = "simulate" -> simulate(t, r)
    [] m = "estimateGasLimit" -> estimateGasLimit(t, r)
    [] m = "estimateGasCost" -> estimateGasCost(t, r)
    [] m = "getGasPrice" -> getGasPrice(r)
    [] m = "getGasOverrides" -> getGasOverrides(browser, r)
    [] m = "send" -> send(t, browser, r)
    [] m = "execute" -> execute(t, browser, r)

-----------------------------------------------------------------------------
(* What the remote collaborators can answer.                               *)

Reply(ok, flag, id, num, str) == [ok |-> ok, flag |-> flag, id |-> id, num |-> num, s |-> str]

\* The call failed: it rejected or threw.
Failure == Reply(FALSE, FALSE, 0, BN(0, 0), "")

Success == Reply(TRUE, FALSE, 0, BN(0, 0), "")

SignerAddress == "0xS"

\* The addresses a balance is looked up for: a `from` override, the signer.
Addresses == {"0xF", SignerAddress}

Successes(site) ==
  CASE site = "getFeeData" ->
         {[Success EXCEPT !.flag = TRUE, !.num = ParseGweiTenths(10)], Success}
    [] site \in {"gas.getNetwork"} ->
         {[Success EXCEPT !.id = 1], [Success EXCEPT !.id = Polygon]}
    [] site \in {"te.getNetwork", "gasless.getNetwork"} -> {[Success EXCEPT !.id = 1]}
    [] site = "getBlock" ->
         {[Success EXCEPT !.flag = TRUE, !.num = ParseGweiTenths(300)], Success}
    [] site = "getPolygonGasPriorityFee" -> {[Success EXCEPT !.num = ParseGweiTenths(400)]}
    [] site = "getGasPrice" -> {[Success EXCEPT !.num = ParseGweiTenths(200)]}
    [] site = "estimateGas" -> {[Success EXCEPT !.num = BNFrom(40000)]}
    [] site = "gasless.estimateGas" ->
         {[Success EXCEPT !.num = BNFrom(40000)], [Success EXCEPT !.num = BNFrom(80000)]}
    [] site \in {BalanceOf(address) : address \in Addresses} ->
         {[Success EXCEPT !.num = BNFrom(0)], [Success EXCEPT !.num = BNFrom(2)],
          [Success EXCEPT !.num = BNFrom(5)]}
    [] site \in {"send.getAddress", "te.getAddress", "gasless.getAddress",
                 "gasless.pack.getAddress"} ->
         {[Success EXCEPT !.s = SignerAddress]}
    [] site = "te.fetchMetadata" ->
         {[Success EXCEPT !.id = 1, !.flag = TRUE], [Success EXCEPT !.id = 1],
          [Success EXCEPT !.flag = TRUE]}
    [] OTHER -> {Success}

\* The ways remote call `site` can fail: the error of a failed tx.wait() may
\* carry the hash of the transaction.
Failures(site) ==
  IF site = "wait" THEN {Failure, [Failure EXCEPT !.s = "0xH"]} ELSE {Failure}

ReplyValues(site) ==
  IF site \in Ticks THEN {Success} ELSE Failures(site) \cup Successes(site)

\* The amounts of wei the provider reports as a fee or a price when the fee
\* policy is followed on its own: from 0 to 1000 gwei, multiples of 100 wei
\* and not.
FeeInputs ==
  {BN(hi, lo) : hi \in {0, 10, 22, 23, 25, 30, 2727, 2728, 3000, 10000},
                lo \in {0, 50, 99, 99999950}}

\* The chain ids the provider reports then.
ChainInputs == {1, Polygon, Mumbai}

\* What the remote collaborators can answer when the fee policy is followed
\* on its own.
PolicyReplyValues(site) ==
  CASE site = "getFeeData" ->
         {Failure, Success}
         \cup {[Success EXCEPT !.flag = TRUE, !.num = fee] : fee \in FeeInputs}
    [] site = "gas.getNetwork" ->
         {Failure} \cup {[Success EXCEPT !.id = chainId] : chainId \in ChainInputs}
    [] site = "getGasPrice" ->
         {Failure} \cup {[Success EXCEPT !.num = fee] : fee \in FeeInputs}
    [] OTHER -> ReplyValues(site)

-----------------------------------------------------------------------------
(* The builders and batches of the runs explored.                          *)

\* At most this many builders are in a batch.
MaxBatch == 3

PlainMint == Builder("mint", <<ValueArg("0xT")>>, NoOverrides, "none", FALSE)

\* A mint sent directly or through a relay, made with `from` or without it.
ValueInputs ==
  { Builder("mint", <<ValueArg("0xT")>>, [NoOverrides EXCEPT !.from = from],
            gasless, FALSE) :
      from \in {"", "0xF"}, gasless \in {"none", "openzeppelin"} }

BuilderInputs ==
  { PlainMint,
    Builder("burn", <<ValueArg("0xT")>>, NoOverrides, "none", FALSE),
    Builder("burn", <<ValueArg("0xT")>>, NoOverrides, "openzeppelin", FALSE),
    Builder("mint", <<ValueArg("0xT")>>,
            [NoOverrides EXCEPT !.from = "0xF", !.gasLimit = Some(BNFrom(90000))],
            "none", TRUE),
    Builder("mint", <<ValueArg("0xT")>>, [NoOverrides EXCEPT !.value = Some(BNFrom(3))],
            "none", FALSE),
    Builder("mint", <<ValueArg("0xT")>>, NoOverrides, "openzeppelin", FALSE),
    Builder("mint", <<ValueArg("0xT")>>,
            [NoOverrides EXCEPT !.gasLimit = Some(BNFrom(90000))], "empty", FALSE),
    Builder("mint", <<ValueArg("0xT")>>, [NoOverrides EXCEPT !.value = Some(BNFrom(3))],
            "openzeppelin", FALSE),
    Builder("multicall", <<ArrayArg(<<"0xaa", "0xbb">>)>>, NoOverrides, "biconomy", TRUE),
    Builder("multicall", <<ArrayArg(<<"0xaa", "0xbb">>), ValueArg("0xT")>>,
            [NoOverrides EXCEPT !.from = "0xF"], "openzeppelin", FALSE),
    Builder("multicall", <<ArrayArg(<<>>)>>,
            [NoOverrides EXCEPT !.from = "0xF", !.gasLimit = Some(BNFrom(700000))],
            "openzeppelin", FALSE) }

\* The builders encode() is called on.
EncodeInputs ==
  { Builder("multicall", <<ArrayArg(<<"0xaa", "0xbb">>)>>, NoOverrides, "biconomy", TRUE),
    Builder("mint", <<ValueArg("0xT")>>,
            [NoOverrides EXCEPT !.from = "0xF", !.gasLimit = Some(BNFrom(90000))],
            "none", TRUE) }

\* The builders put in a batch.
BatchInputs ==
  { Builder("mint", <<ValueArg("0xT")>>,
            [NoOverrides EXCEPT !.from = "0xF", !.gasLimit = Some(BNFrom(90000))],
            "none", FALSE),
    Builder("burn", <<ValueArg("0xT")>>, NoOverrides, "none", FALSE),
    Builder("mint", <<ValueArg("0xT")>>, [NoOverrides EXCEPT !.from = "0xF"],
            "biconomy", TRUE) }

\* The batches executeAll() is invoked on while it is running.
ReentrantInputs ==
  { <<Builder("mint", <<ValueArg("0xT")>>,
              [NoOverrides EXCEPT !.from = "0xF", !.gasLimit = Some(BNFrom(90000))],
              "none", FALSE)>>,
    <<Builder("mint", <<ValueArg("0xT")>>, [NoOverrides EXCEPT !.from = "0xF"],
              "biconomy", TRUE),
      Builder("burn", <<ValueArg("0xT")>>, NoOverrides, "none", FALSE)>> }

\* The overrides a caller passes to setOverrides.
OverridesInputs ==
  { [NoOverrides EXCEPT !.gasLimit = Some(BNFrom(0))],
    [NoOverrides EXCEPT !.gasLimit = Some(BNFrom(120000))],
    [NoOverrides EXCEPT !.gasPrice = Some(ParseGweiTenths(50))],
    [NoOverrides EXCEPT !.maxPriorityFeePerGas = Boxed(ParseGweiTenths(70))],
    [NoOverrides EXCEPT !.value = Some(BNFrom(3))],
    [NoOverrides EXCEPT !.from = "0xF"] }

\* What a caller passes to setParse: a function (TRUE), or, the caller not
\* being type-checked, undefined (FALSE).
ParseInputs == BOOLEAN

NoOutcome == [op |-> "idle", st |-> "none", val |-> NoVal, err |-> NoErr]

\* st = "returned": executeAll returned `list`, the batch having `size` members;
\* st = "raised": it rejected with `err`.
NoResult == [st |-> "none", list |-> <<>>, size |-> 0, err |-> NoErr]

NoReplies == <<>>

\* No call of encode() yet. `after` of a call of encode() is the method whose
\* call completed last before it, "idle" if none did since the builder was
\* made or its overrides were set, "" if a call is in flight.
NoEncoded == [first |-> [data |-> "", after |-> ""],
              latest |-> [data |-> "", after |-> ""]]

-----------------------------------------------------------------------------
(* One builder: a caller invokes a method and awaits it.                   *)

\* The latest call made on the builder, with what is recorded of it.
Slot == [op |-> op, replies |-> replies, trace |-> trace, outcome |-> outcome]

\* `call` is still at work: its run is in flight, or it has rejected with a
\* promise and the diagnosis behind the promise is going on.
Live(call) == call.op # "idle" \/ Detached(call.outcome) # <<>>

\* `call` after the remote call `site` its run is awaiting is answered with
\* v: the run goes on to its next await or to its end, a diagnosis it leaves
\* behind making its first call.
Resumed(call, t, browser, site, v) ==
  Bind((site :> Received(v, t)) @@ call.replies, LAMBDA r :
    [call EXCEPT
       !.replies = r,
       !.trace = Append(call.trace, site)
                 \o DetachedCalls(t, r, Run(call.op, t, browser, r))])

\* `call` after the remote call its run is awaiting is answered, in any of
\* the ways it can be.
Answers(call, t, browser) ==
  IF call.op = "idle" THEN {}
  ELSE UNION {
         IF run.st # "wait" THEN {}
         ELSE {Resumed(call, t, browser, run.at, v) : v \in ReplyValues(run.at)}
         : run \in {Run(call.op, t, browser, call.replies)}}

\* The same, with the amounts and chain ids the fee policy is followed on.
PolicyAnswers(call, t, browser) ==
  IF call.op = "idle" THEN {}
  ELSE UNION {
         IF run.st # "wait" THEN {}
         ELSE {Resumed(call, t, browser, run.at, v) : v \in PolicyReplyValues(run.at)}
         : run \in {Run(call.op, t, browser, call.replies)}}

\* `call` after its run has completed: the caller's await resumes with its
\* value or its thrown value.
Settles(call, t, browser) ==
  IF call.op = "idle" THEN {}
  ELSE UNION {
         IF run.st = "wait" THEN {}
         ELSE {[call EXCEPT
                  !.op = "idle",
                  !.outcome = [op |-> call.op, st |-> run.st, val |-> run.val,
                               err |-> run.err]]}
         : run \in {Run(call.op, t, browser, call.replies)}}

\* `call` after the remote call the diagnosis left going on is awaiting is
\* answered: the diagnosis makes its next call, or the promise settles.
Diagnoses(call, t) ==
  IF call.op # "idle" \/ Detached(call.outcome) = <<>> THEN {}
  ELSE UNION {
         IF diagnosis.st # "wait" THEN {}
         ELSE {Bind((diagnosis.at :> Received(v, t)) @@ call.replies, LAMBDA r :
                 Bind(transactionError(t, r, call.outcome.err.reason), LAMBDA next :
                   [call EXCEPT
                      !.replies = r,
                      !.trace = IF next.st = "wait" THEN Append(call.trace, next.at)
                                ELSE call.trace,
                      !.outcome.err = PromiseSettled(call.outcome.err, next)]))
               : v \in ReplyValues(diagnosis.at)}
         : diagnosis \in {transactionError(t, call.replies, call.outcome.err.reason)}}

\* What is recorded of the latest call when a setter changes the builder: of
\* a call at work it is kept, the run going on with the builder as it finds
\* it; of a call that is over, made with the builder as it was, it is
\* dropped.
RecordsAfterSetter ==
  IF Live(Slot) THEN UNCHANGED <<replies, trace, outcome>>
  ELSE /\ replies' = NoReplies
       /\ trace' = <<>>
       /\ outcome' = NoOutcome

\* setOverrides(overrides), at any moment, calls at work or not.
SetOverrides ==
  \E overrides \in OverridesInputs :
    /\ tx' = [tx EXCEPT !.overrides = Spread(tx.overrides, overrides)]
    /\ RecordsAfterSetter
    /\ UNCHANGED <<encoded, others, isBrowser, op, pvars, bvars>>

\* A caller that sets the overrides between two calls it awaits.
SetOverridesAwaited ==
  /\ ~Live(Slot)
  /\ SetOverrides
  /\ tx'.overrides.from = tx.overrides.from
  /\ tx'.overrides.value = tx.overrides.value

\* setParse(parse), at any moment, calls at work or not.
SetParse ==
  \E parse \in ParseInputs :
    /\ tx' = [tx EXCEPT !.parse = parse]
    /\ RecordsAfterSetter
    /\ UNCHANGED <<encoded, others, isBrowser, op, pvars, bvars>>

\* A caller that sets the parse function between two calls it awaits.
SetParseAwaited ==
  /\ ~Live(Slot)
  /\ SetParse

\* encode(), at any moment, a call of an async method in flight or not. It
\* returns the call data; for a method the interface does not have,
\* encodeFunctionData throws and nothing is returned.
Encode ==
  /\ HasFunction(tx)
  /\ \E returned \in {[data |-> encode(tx),
                        after |-> IF op # "idle" THEN "" ELSE outcome.op]} :
       encoded' = [first |-> IF encoded.first.data = "" THEN returned
                             ELSE encoded.first,
                   latest |-> returned]
  /\ UNCHANGED <<tx, isBrowser, op, replies, trace, outcome, others, pvars, bvars>>

\* Method m of the builder is invoked, whatever is in flight on it: a call
\* still at work goes on next to the new one.
Invoke(m) ==
  /\ Live(Slot) => Len(others) < MaxOthers
  /\ others' = IF Live(Slot) THEN Append(others, Slot) ELSE others
  /\ op' = m
  /\ replies' = NoReplies
  /\ trace' = <<>>
  /\ outcome' = NoOutcome
  /\ UNCHANGED <<tx, encoded, isBrowser, pvars, bvars>>

\* A caller invokes a method of the builder.
Call ==
  \E m \in Methods : Invoke(m)

\* A method of the fee policy is invoked on its own.
CallPolicy ==
  \E m \in PolicyMethods : Invoke(m)

\* A caller that awaits a call of the fee policy before it makes the next.
CallPolicyAwaited ==
  /\ ~Live(Slot)
  /\ CallPolicy

\* A caller that awaits a call, and the promise it was thrown, before it
\* makes the next call.
CallAwaited ==
  /\ ~Live(Slot)
  /\ Call

\* The remote call the run is awaiting is answered.
Answer ==
  /\ \E next \in Answers(Slot, tx, isBrowser) :
       /\ replies' = next.replies
       /\ trace' = next.trace
  /\ UNCHANGED <<tx, encoded, others, isBrowser, op, outcome, pvars, bvars>>

\* The remote call the run is awaiting is answered, with the amounts and
\* chain ids the fee policy is followed on.
AnswerPolicy ==
  /\ \E next \in PolicyAnswers(Slot, tx, isBrowser) :
       /\ replies' = next.replies
       /\ trace' = next.trace
  /\ UNCHANGED <<tx, encoded, others, isBrowser, op, outcome, pvars, bvars>>

\* The run has completed: the caller's await resumes with its value or its
\* thrown value.
Settle ==
  /\ \E next \in Settles(Slot, tx, isBrowser) :
       /\ op' = next.op
       /\ outcome' = next.outcome
  /\ tx' = [tx EXCEPT !.args = thisArgsAfter(op, tx, replies)]
  /\ UNCHANGED <<encoded, others, isBrowser, replies, trace, pvars, bvars>>

\* The remote call awaited by the diagnosis behind the promise the latest
\* call has thrown is answered.
Diagnose ==
  /\ \E next \in Diagnoses(Slot, tx) :
       /\ replies' = next.replies
       /\ trace' = next.trace
       /\ outcome' = next.outcome
  /\ UNCHANGED <<tx, encoded, others, isBrowser, op, pvars, bvars>>

\* The remote call the run of an earlier call is awaiting is answered.
AnswerOther ==
  /\ \E i \in DOMAIN others :
       \E next \in Answers(others[i], tx, isBrowser) :
         others' = [others EXCEPT ![i] = next]
  /\ UNCHANGED <<tx, encoded, isBrowser, op, replies, trace, outcome, pvars, bvars>>

\* The run of an earlier call has completed.
SettleOther ==
  /\ \E i \in DOMAIN others :
       \E next \in Settles(others[i], tx, isBrowser) :
         /\ others' = [others EXCEPT ![i] = next]
         /\ tx' = [tx EXCEPT !.args = thisArgsAfter(others[i].op, tx, others[i].replies)]
  /\ UNCHANGED <<encoded, isBrowser, op, replies, trace, outcome, pvars, bvars>>

\* The remote call awaited by the diagnosis an earlier call left going on is
\* answered.
DiagnoseOther ==
  /\ \E i \in DOMAIN others :
       \E next \in Diagnoses(others[i], tx) :
         others' = [others EXCEPT ![i] = next]
  /\ UNCHANGED <<tx, encoded, isBrowser, op, replies, trace, outcome, pvars, bvars>>

-----------------------------------------------------------------------------
(* A batch: Transactions.add and Transactions.executeAll.                  *)

\* add(transaction)
Add ==
  \E t \in BatchInputs :
    /\ Len(transactions) < MaxBatch
    /\ transactions' = Append(transactions, t)
    /\ UNCHANGED <<pc, index, awaiting, started, touched, settled, receipts, result,
                   earlier>>
    /\ UNCHANGED <<pvars, tvars>>

\* The latest invocation of executeAll(), with what is recorded of it and
\* of the execute() it is awaiting.
Loop ==
  [pc |-> pc, index |-> index, awaiting |-> awaiting, started |-> started,
   touched |-> touched, settled |-> settled, receipts |-> receipts,
   result |-> result, replies |-> replies, trace |-> trace]

\* An invocation that has just been made: `let receipts = []`, the loop at
\* the first member.
NewLoop ==
  [pc |-> "loop", index |-> 1, awaiting |-> FALSE, started |-> {}, touched |-> {},
   settled |-> {}, receipts |-> <<>>, result |-> NoResult, replies |-> NoReplies,
   trace |-> <<>>]

\* The latest invocation becomes `next`.
Continue(next) ==
  /\ pc' = next.pc
  /\ index' = next.index
  /\ awaiting' = next.awaiting
  /\ started' = next.started
  /\ touched' = next.touched
  /\ settled' = next.settled
  /\ receipts' = next.receipts
  /\ result' = next.result
  /\ replies' = next.replies
  /\ trace' = next.trace

\* The execute() invocation `loop` is awaiting, as a call of the member.
MemberCall(loop) ==
  [op |-> "execute", replies |-> loop.replies, trace |-> loop.trace,
   outcome |-> NoOutcome]

\* A variant of the loop that calls the execute() of every member left
\* without awaiting the one before.
StartsMemberEarly(loop, members, browser) ==
  {[loop EXCEPT
      !.started = loop.started \cup (loop.index..Len(members)),
      !.touched = IF run.st = "wait" /\ run.at \notin Ticks
                  THEN loop.touched \cup {loop.index}
                  ELSE loop.touched,
      !.awaiting = TRUE,
      !.replies = NoReplies,
      !.trace = <<>>]
   : run \in {execute(members[loop.index], browser, NoReplies)}}

\* `loop` after it has taken the member at its index and called its
\* execute(), which runs up to its first await: to a remote call it has
\* issued, to a tick, or to its end.
StartsMember(loop, members, browser) ==
  {[loop EXCEPT
      !.started = loop.started \cup {loop.index},
      !.touched = IF run.st = "wait" /\ run.at \notin Ticks
                  THEN loop.touched \cup {loop.index}
                  ELSE loop.touched,
      !.awaiting = TRUE,
      !.replies = NoReplies,
      !.trace = <<>>]
   : run \in {execute(members[loop.index], browser, NoReplies)}}

\* `loop` after it has found no member left: `return receipts`.
Returns(loop, members) ==
  {[loop EXCEPT
      !.pc = "returned",
      !.result = [NoResult EXCEPT !.st = "returned", !.list = loop.receipts,
                                  !.size = Len(members)]]}

\* `loop`, in the for...of, runs up to its next await or to its end: it
\* calls the execute() of the member at its index and awaits it, or, no
\* member being left, returns receipts.
GoesOn(loop, members, browser) ==
  IF loop.index <= Len(members) THEN StartsMember(loop, members, browser)
  ELSE Returns(loop, members)

\* `loop` after the remote call the execute() it is awaiting is awaiting is
\* answered.
MemberAnswers(loop, members, browser) ==
  IF loop.pc = "loop" /\ loop.awaiting
  THEN {[loop EXCEPT
           !.replies = next.replies,
           !.trace = next.trace,
           !.touched = loop.touched \cup {loop.index}]
        : next \in Answers(MemberCall(loop), members[loop.index], browser)}
  ELSE {}

\* A variant of the loop that catches the failure of a member and goes on
\* with the next one.
MemberSettlesAndGoOn(loop, members, browser) ==
  IF loop.pc = "loop" /\ loop.awaiting
  THEN UNION {
         IF run.st = "wait" THEN {}
         ELSE GoesOn([loop EXCEPT
                        !.settled = loop.settled \cup
                          {[member |-> loop.index, st |-> run.st, val |-> run.val,
                            err |-> run.err]},
                        !.awaiting = FALSE,
                        !.receipts = IF run.st = "ok"
                                     THEN Append(loop.receipts,
                                                 [member |-> loop.index, val |-> run.val])
                                     ELSE loop.receipts,
                        !.index = loop.index + 1],
                     members, browser)
         : run \in {execute(members[loop.index], browser, loop.replies)}}
  ELSE {}

\* `loop` after the execute() it is awaiting has completed: its value is
\* pushed on receipts and the loop goes on, to the execute() of the next
\* member or to `return receipts`; or its thrown value rejects executeAll.
MemberSettles(loop, members, browser) ==
  IF loop.pc = "loop" /\ loop.awaiting
  THEN UNION {
         IF run.st = "wait" THEN {}
         ELSE IF run.st = "ok"
         THEN GoesOn([loop EXCEPT
                        !.settled = loop.settled \cup
                          {[member |-> loop.index, st |-> run.st, val |-> run.val,
                            err |-> run.err]},
                        !.awaiting = FALSE,
                        !.receipts = Append(loop.receipts,
                                            [member |-> loop.index, val |-> run.val]),
                        !.index = loop.index + 1],
                     members, browser)
         ELSE {[loop EXCEPT
                  !.settled = loop.settled \cup
                    {[member |-> loop.index, st |-> run.st, val |-> run.val,
                      err |-> run.err]},
                  !.awaiting = FALSE,
                  !.pc = "raised",
                  !.result = [NoResult EXCEPT !.st = "raised", !.err = run.err]]}
         : run \in {execute(members[loop.index], browser, loop.replies)}}
  ELSE {}

\* A caller invokes executeAll(), whatever came of the invocations before:
\* one that is in its loop goes on next to the new one. The new invocation
\* runs up to its first await, that of the first member's execute(), or, the
\* batch being empty, to `return receipts`.
CallExecuteAll ==
  /\ pc = "loop" => Len(earlier) < MaxOthers
  /\ earlier' = IF pc = "loop" THEN Append(earlier, Loop) ELSE earlier
  /\ \E next \in GoesOn(NewLoop, transactions, isBrowser) : Continue(next)
  /\ UNCHANGED <<transactions, pvars, tx, encoded, others, isBrowser, op, outcome>>

\* A caller that awaits an invocation of executeAll() before it makes the
\* next.
CallExecuteAllAwaited ==
  /\ pc # "loop"
  /\ CallExecuteAll

\* The remote call the execute() in flight is awaiting is answered.
MemberAnswer ==
  /\ \E next \in MemberAnswers(Loop, transactions, isBrowser) : Continue(next)
  /\ UNCHANGED <<transactions, earlier, pvars, tx, encoded, others, isBrowser, op, outcome>>

\* The execute() in flight has completed.
MemberSettle ==
  /\ \E next \in MemberSettles(Loop, transactions, isBrowser) : Continue(next)
  /\ UNCHANGED <<transactions, earlier, pvars, tx, encoded, others, isBrowser, op, outcome>>

\* The steps of an invocation of executeAll() made before the latest one.
MemberAnswerOfEarlier ==
  /\ \E i \in DOMAIN earlier :
       \E next \in MemberAnswers(earlier[i], transactions, isBrowser) :
         earlier' = [earlier EXCEPT ![i] = next]
  /\ UNCHANGED <<transactions, pc, index, awaiting, started, touched, settled, receipts,
                 result, pvars, tvars>>

MemberSettleOfEarlier ==
  /\ \E i \in DOMAIN earlier :
       \E next \in MemberSettles(earlier[i], transactions, isBrowser) :
         earlier' = [earlier EXCEPT ![i] = next]
  /\ UNCHANGED <<transactions, pc, index, awaiting, started, touched, settled, receipts,
                 result, pvars, tvars>>

-----------------------------------------------------------------------------
(* Specifications.                                                         *)

InitBuilder ==
  /\ op = "idle"
  /\ others = <<>>
  /\ encoded = NoEncoded
  /\ replies = NoReplies
  /\ trace = <<>>
  /\ outcome = NoOutcome

InitBatch ==
  /\ pc = "idle"
  /\ index = 1
  /\ awaiting = FALSE
  /\ started = {}
  /\ touched = {}
  /\ settled = {}
  /\ receipts = <<>>
  /\ result = NoResult
  /\ earlier = <<>>

InitCache ==
  /\ RPC_PROVIDER_MAP = {}
  /\ nextId = 1
  /\ handed = {}
  /\ firstBatch = {}
  /\ last = NoCall

\* The resolver and its cache alone.
InitProvider ==
  /\ InitCache
  /\ tx = PlainMint
  /\ isBrowser = FALSE
  /\ transactions = <<>>
  /\ InitBuilder
  /\ InitBatch

NextProvider ==
  \/ CallGetProviderFromRpcUrl
  \/ CallGetChainProvider
  \/ CallGetChainIdFromNetwork

SpecProvider == InitProvider /\ [][NextProvider]_vars

\* getChainProvider on chain references off the chain table.
NextFallback ==
  CallGetChainProviderOffTable

SpecFallback == InitProvider /\ [][NextFallback]_vars

\* The cache of http(s) connections and its key alone.
NextCacheKey ==
  CallGetProviderFromHttpUrl

SpecCacheKey == InitProvider /\ [][NextCacheKey]_vars

\* The fee policy on its own, outside the browser: calls of getGasOverrides()
\* and of getGasPrice(), followed from one remote call to the next.
InitFees ==
  /\ InitCache
  /\ tx = PlainMint
  /\ isBrowser = FALSE
  /\ transactions = <<>>
  /\ InitBuilder
  /\ InitBatch

NextFees ==
  \/ CallPolicyAwaited
  \/ AnswerPolicy
  \/ Settle

SpecFees == InitFees /\ [][NextFees]_vars

\* One builder and the calls of its methods.
Init ==
  /\ InitCache
  /\ tx \in BuilderInputs
  /\ isBrowser \in BOOLEAN
  /\ transactions = <<>>
  /\ InitBuilder
  /\ InitBatch

Next ==
  \/ SetOverridesAwaited
  \/ SetParseAwaited
  \/ CallAwaited
  \/ Answer
  \/ Settle
  \/ Diagnose

Spec == Init /\ [][Next]_vars

\* One builder in the browser and a caller that does not await: calls of
\* its methods made while earlier ones are at work.
InitOverlap ==
  /\ InitCache
  /\ tx = PlainMint
  /\ isBrowser = TRUE
  /\ transactions = <<>>
  /\ InitBuilder
  /\ InitBatch

NextOverlap ==
  \/ Call
  \/ CallPolicy
  \/ Answer
  \/ Settle
  \/ Diagnose
  \/ AnswerOther
  \/ SettleOther
  \/ DiagnoseOther

SpecOverlap == InitOverlap /\ [][NextOverlap]_vars

\* One builder made without overrides and without a parse function, in the
\* browser or outside it, and a caller that sets overrides once and a parse
\* function once, at any moment: before a call, while it is at work, or
\* after it.
InitSetters ==
  /\ InitCache
  /\ tx = PlainMint
  /\ isBrowser \in BOOLEAN
  /\ transactions = <<>>
  /\ InitBuilder
  /\ InitBatch

SetOverridesOnce ==
  /\ tx.overrides = NoOverrides
  /\ SetOverrides

SetParseOnce ==
  /\ ~tx.parse
  /\ SetParse
  /\ tx'.parse

NextSetters ==
  \/ SetOverridesOnce
  \/ SetParseOnce
  \/ CallAwaited
  \/ Answer
  \/ Settle
  \/ Diagnose

SpecSetters == InitSetters /\ [][NextSetters]_vars

\* One builder made without a value, outside the browser, and a caller that
\* sets a value once, at any moment: before a call, while it is at work, or
\* after it.
InitValue ==
  /\ InitCache
  /\ tx \in ValueInputs
  /\ isBrowser = FALSE
  /\ transactions = <<>>
  /\ InitBuilder
  /\ InitBatch

SetValueOnce ==
  /\ ~tx.overrides.value.set
  /\ SetOverrides
  /\ tx'.overrides.value.set
  /\ tx'.overrides.from = tx.overrides.from

NextValue ==
  \/ SetValueOnce
  \/ CallAwaited
  \/ Answer
  \/ Settle
  \/ Diagnose

SpecValue == InitValue /\ [][NextValue]_vars

\* One builder, the calls of its methods and the calls of encode(), in the
\* browser: a multicall sent through a relay, or a mint sent directly.
InitEncode ==
  /\ InitCache
  /\ tx \in EncodeInputs
  /\ isBrowser = TRUE
  /\ transactions = <<>>
  /\ InitBuilder
  /\ InitBatch

\* NextEncode is Next with Encode.
NextEncode ==
  \/ SetOverridesAwaited
  \/ SetParseAwaited
  \/ CallAwaited
  \/ Answer
  \/ Settle
  \/ Diagnose
  \/ Encode

SpecEncode == InitEncode /\ [][NextEncode]_vars

\* A batch of builders and its executeAll.
InitTransactions ==
  /\ InitCache
  /\ tx = PlainMint
  /\ isBrowser \in BOOLEAN
  /\ transactions \in {<<>>} \cup {<<t>> : t \in BatchInputs}
  /\ InitBuilder
  /\ InitBatch

NextTransactions ==
  \/ Add
  \/ CallExecuteAllAwaited
  \/ MemberAnswer
  \/ MemberSettle

SpecTransactions == InitTransactions /\ [][NextTransactions]_vars

\* A batch in the browser and a caller that does not await: executeAll()
\* invoked while earlier invocations are in their loop.
InitReentrant ==
  /\ InitCache
  /\ tx = PlainMint
  /\ isBrowser = TRUE
  /\ transactions \in ReentrantInputs
  /\ InitBuilder
  /\ InitBatch

NextReentrant ==
  \/ CallExecuteAll
  \/ MemberAnswer
  \/ MemberSettle
  \/ MemberAnswerOfEarlier
  \/ MemberSettleOfEarlier

SpecReentrant == InitReentrant /\ [][NextReentrant]_vars

-----------------------------------------------------------------------------
(* Properties of the provider resolver and its cache.                      *)

IsUrlRef(network) == network.kind = "string" /\ isRpcUrl(network.s)

\* The call `c` resolved a ws:// or wss:// URL to a connection.
WsCall(c) == c.fn \in Resolvers /\ c.ok /\ MatchScheme(c.rpcUrl) = "ws"

\* C5 as stated: a resolution of the (rpcUrl, chainId) that the resolution
\* right before it resolved returns the identical handle.
C5_SecondResolutionIdentical ==
  (last.fn \in Resolvers /\ last.previous # NoProvider) =>
    last.provider = last.previous

\* C5, amended: once a resolution of an http(s) URL has returned the batch
\* connection it constructed, every later resolution of the same
\* (rpcUrl, chainId), by whatever chain reference, returns that identical handle.
C5_CachedHandleReturnedAgain ==
  \A e \in firstBatch :
    (last.fn \in Resolvers /\ last.ok
       /\ last.rpcUrl = e.rpcUrl /\ last.chainId = e.chainId)
    => last.provider = e.provider

\* A getChainProvider call was served the handle that the call before it had
\* returned for the same (rpcUrl, chainId).
C5_SecondResolutionHit ==
  /\ last.fn = "getChainProvider" /\ last.ok /\ last.cached
  /\ last.provider.kind \in BatchKinds
  /\ last.previous = last.provider
  /\ FirstOf(firstBatch, last.rpcUrl, last.chainId) = <<last.provider>>

\* C6: the cache holds at most one entry per key, and a step of any resolver
\* call keeps every entry the cache holds: no entry is removed, none is
\* replaced by another handle.
C6_CacheEntriesPermanent ==
  [][ /\ \A e \in RPC_PROVIDER_MAP : e \in RPC_PROVIDER_MAP'
      /\ \A a, b \in RPC_PROVIDER_MAP' : a.key = b.key => a = b ]_vars

\* A call found its key in a cache of two entries.
C6_HitOnGrownCache ==
  /\ Cardinality(RPC_PROVIDER_MAP) >= 2
  /\ last.fn \in Resolvers /\ last.ok /\ last.cached
  /\ [key |-> CacheKey(last.rpcUrl, last.chainId), value |-> last.provider]
       \in RPC_PROVIDER_MAP

\* C7 as stated: a getChainProvider call whose provider is already cached
\* performs no chain table lookup and no API key substitution.
C7_CacheHitSkipsResolution ==
  (last.fn = "getChainProvider" /\ last.cached) =>
    (~last.lookedUp /\ ~last.substituted)

\* C7, amended: a cache hit short-circuits the construction of a connection
\* only. A getChainProvider call that finds its (rpcUrl, chainId) cached
\* returns the cached handle and constructs nothing; the chain table lookup
\* is performed on every call whose chain reference resolves to a chain id,
\* hit or not, and only a raw RPC URL reference bypasses it.
C7_CacheHitSkipsConstructionOnly ==
  last.fn = "getChainProvider" =>
    /\ (last.ok /\ last.cached) =>
         (~last.created
            /\ MapGet(RPC_PROVIDER_MAP, CacheKey(last.rpcUrl, last.chainId))
                 = <<last.provider>>)
    /\ IsUrlRef(last.network) => (last.ok /\ ~last.lookedUp /\ ~last.substituted)
    /\ ~IsUrlRef(last.network) =>
         (last.lookedUp <=> getChainIdFromNetwork(last.network).ok)

\* A getChainProvider call hit the cache after a chain table lookup with an
\* API key substitution.
C7_HitAfterLookup ==
  /\ last.fn = "getChainProvider" /\ last.ok /\ last.cached
  /\ last.lookedUp /\ last.substituted /\ ~last.created

\* C8 as stated: for a chain descriptor whose chainId is also the chainId of a
\* configured or built-in supported chain, the chain table entry the RPC URL
\* is looked up in is the caller's descriptor.
C8_CallerDescriptorWins ==
  (/\ last.fn = "getChainProvider"
   /\ last.network.kind = "chain"
   /\ \E i \in DOMAIN SDKOptionsSchemaParse(last.sdkOptions).supportedChains :
        SDKOptionsSchemaParse(last.sdkOptions).supportedChains[i].chainId
          = last.network.chain.chainId)
  => last.entry = <<last.network.chain>>

\* C9 as stated: a descriptor resolves to its chainId, a number to itself, a
\* listed chain name to its id, and every other string raises.
C9_UnlistedStringRaises ==
  last.fn = "getChainIdFromNetwork" =>
    CASE last.network.kind = "chain" ->
           last.ok /\ last.chainId = Num(last.network.chain.chainId)
      [] last.network.kind = "number" ->
           last.ok /\ last.chainId = Num(last.network.n)
      [] last.network.kind = "string" /\ last.network.s \in DOMAIN CHAIN_NAME_TO_ID ->
           last.ok /\ last.chainId = Num(CHAIN_NAME_TO_ID[last.network.s])
      [] OTHER -> ~last.ok

\* C10: a resolution of a ws:// or wss:// URL returns a connection created by
\* that call, distinct from every handle returned before (the one the call
\* before it returned for the same URL and chain id included), and leaves the
\* provider cache as it was.
C10_StreamingNotCached ==
  [][ WsCall(last') =>
        /\ RPC_PROVIDER_MAP' = RPC_PROVIDER_MAP
        /\ last'.created
        /\ last'.provider.kind \in {"WebSocketProvider", "DefaultProvider"}
        /\ last'.provider.id \notin handed
        /\ last'.provider # last'.previous ]_vars

\* Two calls in a row resolved the same ws(s) URL and chain id, each to a
\* streaming connection of its own.
C10_TwoStreams ==
  /\ WsCall(last)
  /\ last.provider.kind = "WebSocketProvider"
  /\ last.previous.kind = "WebSocketProvider"
  /\ last.previous # last.provider

\* C11: a resolver call in which a connection constructor threw returns, to
\* its caller, a new default connection for the URL, and leaves the cache as
\* it was.
C11_ConstructionFailureDegrades ==
  [][last'.threw =>
       /\ last'.ok
       /\ last'.provider.kind = "DefaultProvider"
       /\ last'.provider.url = last'.rpcUrl
       /\ last'.provider.id \notin handed
       /\ RPC_PROVIDER_MAP' = RPC_PROVIDER_MAP]_vars

\* C11 witness: the batch constructor threw for a key the cache does not
\* hold, and the key is still not held.
C11_BatchConstructorThrew ==
  /\ last.threw
  /\ MatchScheme(last.rpcUrl) = "http"
  /\ last.provider.kind = "DefaultProvider"
  /\ MapGet(RPC_PROVIDER_MAP, CacheKey(last.rpcUrl, last.chainId)) = <<>>

-----------------------------------------------------------------------------
(* Properties of the batch.                                                *)

\* The invocations of executeAll() followed: the earlier ones, then the
\* latest.
Loops == Append(earlier, Loop)

\* The members whose execute() has completed in invocation `loop`.
SettledMembers(loop) == {f.member : f \in loop.settled}

\* C1: in every invocation of executeAll(), if the execute() of the member at
\* position k fails, the invocation has raised that failure and given its
\* caller no list, and no member at a position after k has been started or
\* has had a remote call issued for it.
C1_FirstFailureRaises ==
  \A i \in DOMAIN Loops :
    \A f \in Loops[i].settled :
      f.st = "err" =>
        /\ Loops[i].pc = "raised"
        /\ Loops[i].result = [NoResult EXCEPT !.st = "raised", !.err = f.err]
        /\ \A j \in 1..Len(transactions) :
             j > f.member => j \notin Loops[i].started /\ j \notin Loops[i].touched

\* C1 witness: in a batch of three the first member has succeeded, the second
\* has failed on a remote call and executeAll has raised.
C1_SecondOfThreeFailed ==
  /\ Len(transactions) = 3
  /\ Len(receipts) = 1
  /\ pc = "raised"
  /\ \E f \in settled : f.member = 2 /\ f.st = "err" /\ f.err.kind = "TransactionError"

\* C2: in every invocation of executeAll(), at most one member is in flight;
\* a member has been started only if every member before it has completed
\* successfully; the list the invocation returns has one result per member,
\* the k-th being the result of member k.
C2_StrictlySerial ==
  \A i \in DOMAIN Loops :
    /\ Cardinality(Loops[i].started \ SettledMembers(Loops[i])) <= 1
    /\ \A k \in Loops[i].started : \A j \in 1..(k - 1) :
         \E f \in Loops[i].settled : f.member = j /\ f.st = "ok"
    /\ Loops[i].result.st = "returned" =>
         /\ Len(Loops[i].result.list) = Loops[i].result.size
         /\ \A k \in 1..Loops[i].result.size :
              /\ Loops[i].result.list[k].member = k
              /\ \E f \in Loops[i].settled :
                   f.member = k /\ f.st = "ok" /\ f.val = Loops[i].result.list[k].val

\* C2 witness: executeAll has returned the results of three members, the
\* first sent directly and the second through the relay.
C2_ThreeResultsInOrder ==
  /\ result.st = "returned"
  /\ Len(result.list) = 3
  /\ result.list[1].val.via = "direct"
  /\ result.list[2].val.via = "relay"

-----------------------------------------------------------------------------
(* Properties of the execution engine.                                     *)

\* The remote calls of the latest run that failed.
Failed == {site \in DOMAIN replies : ~replies[site].ok}

\* A call of a builder method has completed.
Completed == op = "idle" /\ outcome.st # "none"

\* C3 as stated: when a call of simulate, estimateGasLimit, send or execute has raised
\* after a remote call of its run failed, what the caller receives is a
\* structured transaction error.
C3_NetworkFailuresStructured ==
  (Completed /\ outcome.st = "err" /\ Failed # {}) =>
    outcome.err.kind = "TransactionError"

\* The calls followed on the builder: the earlier ones, then the latest.
Calls == Append(others, Slot)

\* The remote calls of `call` that failed.
FailedIn(call) == {site \in DOMAIN call.replies : ~call.replies[site].ok}

\* C4 as stated: when a call of estimateGasLimit(), made while earlier calls
\* are at work or not, has raised after the estimation call failed, the
\* static call of simulate() was made; if it failed (and the queries of the
\* diagnosis succeeded) the caller receives the error diagnosed from the
\* static call; if it succeeded the caller receives the error object
\* diagnosed from the estimation failure.
C4_EstimateFailureDiagnosed ==
  \A i \in DOMAIN Calls :
    (/\ Calls[i].op = "idle"
     /\ Calls[i].outcome.op = "estimateGasLimit"
     /\ "estimateGas" \in FailedIn(Calls[i])) =>
      /\ Calls[i].outcome.st = "err"
      /\ "callStatic" \in DOMAIN Calls[i].replies
      /\ (/\ "callStatic" \in FailedIn(Calls[i])
          /\ FailedIn(Calls[i]) \cap {"te.getNetwork", "te.getAddress"} = {}) =>
           /\ Calls[i].outcome.err.kind = "TransactionError"
           /\ Calls[i].outcome.err.reason = "callStatic"
      /\ "callStatic" \notin FailedIn(Calls[i]) =>
           /\ Calls[i].outcome.err.kind = "TransactionError"
           /\ Calls[i].outcome.err.reason = "estimateGas"

\* The latest call was a send(), or an execute(), of a builder without
\* gasless options, and it has completed.
DirectSendCompleted ==
  Completed /\ outcome.op \in {"send", "execute"} /\ ~UsesRelay(tx)

\* What getGasOverrides() returned in the latest run.
PolicyOutput == getGasOverrides(isBrowser, replies).val.overrides

\* In the latest run, a send(), getGasOverrides() has returned and send()
\* has read this.overrides.
OverridesRead ==
  /\ getGasOverrides(isBrowser, replies).st = "ok"
  /\ isBrowser => Tick \in DOMAIN replies

\* The override map as send() read it: what the caller had set by then.
CallerOverrides == thisAfterGasOverrides(isBrowser, replies).overrides

\* C12 as stated: estimateGasLimit() is invoked only if no gasLimit is set,
\* and always before a submission without one; in the overrides submitted,
\* every fee field and the gasLimit the caller has set (by the time send()
\* reads the override map, setOverrides being called at any moment) has the
\* caller's value, every fee field left unset has the value of the fee
\* policy and a gasLimit left unset has the estimate.
C12_ExplicitOverridesSubmitted ==
  (DirectSendCompleted /\ OverridesRead) =>
    /\ "estimateGas" \in DOMAIN replies => ~CallerOverrides.gasLimit.set
    /\ ("submit" \in DOMAIN replies /\ ~CallerOverrides.gasLimit.set) =>
         "estimateGas" \in DOMAIN replies
    /\ outcome.st = "ok" =>
         LET submitted == outcome.val.overrides
             mine == CallerOverrides
         IN /\ submitted.gasPrice =
                 IF mine.gasPrice.set THEN mine.gasPrice ELSE PolicyOutput.gasPrice
            /\ submitted.maxFeePerGas =
                 IF mine.maxFeePerGas.set THEN mine.maxFeePerGas
                 ELSE PolicyOutput.maxFeePerGas
            /\ submitted.maxPriorityFeePerGas =
                 IF mine.maxPriorityFeePerGas.set THEN mine.maxPriorityFeePerGas
                 ELSE PolicyOutput.maxPriorityFeePerGas
            /\ submitted.gasLimit =
                 IF mine.gasLimit.set THEN mine.gasLimit
                 ELSE Boxed(replies["estimateGas"].num)

\* C13: when the submission of a send() without gasless options has failed,
\* the one balance looked up is that of the `from` override, of the signer
\* if there is none; with the balance at hand and the queries of the
\* diagnosis answered, the error raised is the diagnosis of insufficient
\* funds if the balance is zero or lower than a requested value, and the
\* diagnosis of the submission failure in every other case.
C13_InsufficientFundsDiagnosis ==
  (DirectSendCompleted /\ "submit" \in Failed) =>
    LET sender == IF tx.overrides.from # "" THEN tx.overrides.from ELSE SignerAddress
        looked == BalanceOf(sender)
        requested == tx.overrides.value.set /\ ~BNIsZero(tx.overrides.value.num)
    IN /\ tx.overrides.from # "" => "send.getAddress" \notin DOMAIN replies
       /\ \A address \in Addresses :
            BalanceOf(address) \in DOMAIN replies => address = sender
       /\ (/\ looked \in DOMAIN replies
           /\ looked \notin Failed
           /\ Failed \cap {"te.getNetwork", "te.getAddress"} = {}) =>
            /\ outcome.st = "err"
            /\ outcome.err.kind = "TransactionError"
            /\ outcome.err.reason =
                 IF \/ BNIsZero(replies[looked].num)
                    \/ requested /\ BNLt(replies[looked].num, tx.overrides.value.num)
                 THEN "insufficient funds"
                 ELSE "submit"

\* C13 witness: a send that requested a value of 3 has failed at submission
\* with the signer's balance at 2, and has raised insufficient funds.
C13_BalanceBelowValue ==
  /\ DirectSendCompleted
  /\ "submit" \in Failed
  /\ tx.overrides.from = ""
  /\ tx.overrides.value = Some(BNFrom(3))
  /\ BalanceOf(SignerAddress) \in DOMAIN replies
  /\ replies[BalanceOf(SignerAddress)].num = BNFrom(2)
  /\ outcome.err.reason = "insufficient funds"

\* The latest call was a send(), or an execute(), of a builder with gasless
\* options, and it has completed.
GaslessSendCompleted ==
  Completed /\ outcome.op \in {"send", "execute"} /\ UsesRelay(tx)

\* The integer a BigNumber is.
ToInt(bn) == bn.hi * Radix + bn.lo

\* C14: with e the estimate (0 when the estimation call failed), the computed
\* limit is 2e when 2e >= 100,000 and 500,000 otherwise; the gas limit sent
\* to the relay is the gasLimit override when it is set and larger than the
\* computed limit, the computed limit otherwise, and is never below 100,000.
C14_GaslessGasLimit ==
  (GaslessSendCompleted /\ outcome.st = "ok") =>
    LET e == IF "gasless.estimateGas" \in Failed THEN 0
             ELSE ToInt(replies["gasless.estimateGas"].num)
        computed == IF 2 * e >= 100000 THEN 2 * e ELSE 500000
        mine == tx.overrides.gasLimit
        final == IF mine.set /\ ToInt(mine.num) > computed THEN ToInt(mine.num)
                 ELSE computed
    IN /\ ToInt(outcome.val.num) = final
       /\ ToInt(outcome.val.num) >= 100000
       /\ (e = 40000 /\ ~mine.set) => ToInt(outcome.val.num) = 500000
       /\ (e = 80000 /\ ~mine.set) => ToInt(outcome.val.num) = 160000
       /\ (e = 80000 /\ mine = Some(BNFrom(700000))) => ToInt(outcome.val.num) = 700000

\* C14 witness: an estimate of 80,000 and an override of 120,000 have given a
\* limit of 160,000.
C14_OverrideBelowComputed ==
  /\ GaslessSendCompleted
  /\ outcome.st = "ok"
  /\ replies["gasless.estimateGas"].ok
  /\ replies["gasless.estimateGas"].num = BNFrom(80000)
  /\ tx.overrides.gasLimit = Some(BNFrom(120000))
  /\ outcome.val.num = BNFrom(160000)

\* The method of the run the replies belong to: the one in flight, or the
\* latest one completed.
RunMethod == IF op # "idle" THEN op ELSE outcome.op

\* The value override sendGasless compares with zero, <<>> before it has
\* read it: this.overrides.value as the send finds it once the await of
\* `from` has resumed it, on the reply of the signer's address, or, when
\* `from` is set, on the turn of the run after the reply of the network.
GaslessValueRead ==
  IF "gasless.getNetwork" \notin DOMAIN replies \ Failed THEN <<>>
  ELSE LET resumed == IF replies["gasless.getNetwork"].this.overrides.from = ""
                      THEN "gasless.getAddress"
                      ELSE GaslessFromTick
       IN IF resumed \in DOMAIN replies \ Failed
          THEN <<replies[resumed].this.overrides.value>>
          ELSE <<>>

\* sendGasless has read a value override above zero.
GaslessValueAboveZero ==
  /\ RunMethod \in {"send", "execute"}
  /\ UsesRelay(tx)
  /\ GaslessValueRead # <<>>
  /\ GaslessValueRead[1].set
  /\ ToInt(GaslessValueRead[1].num) > 0

\* C15: in a send of a builder with gasless options whose value override is
\* above zero when the send reads it, whether the override was set before
\* the send or while it was at work, no gas estimation and no relay call is
\* ever made, and the send raises the rejection of the value.
C15_GaslessValueRejected ==
  GaslessValueAboveZero =>
    /\ DOMAIN replies \cap {"gasless.estimateGas", "relay", "getTransaction", "wait"} = {}
    /\ Failed = {}
    /\ Completed =>
         /\ outcome.st = "err"
         /\ outcome.err =
              PlainError("Cannot send native token value with gasless transaction")

\* C15 witness: a gasless send of a builder with `from` was started without
\* a value; a value of 3 was set after the network had answered; the send
\* has been rejected for it, and nothing was asked after the network.
C15_LateValueRejected ==
  /\ GaslessSendCompleted
  /\ trace = <<"gasless.getNetwork", GaslessFromTick>>
  /\ ~replies["gasless.getNetwork"].this.overrides.value.set
  /\ GaslessValueRead = <<Some(BNFrom(3))>>
  /\ outcome.err =
       PlainError("Cannot send native token value with gasless transaction")

\* C16: in the arguments and the call data a gasless send has handed to the
\* relay, the inner calls of a multicall with a non-empty first argument are
\* the builder's, each with the signer's address appended, as many and in the
\* same order, the other arguments being the builder's; in every other case
\* the arguments are the builder's.
C16_MulticallPacked ==
  (GaslessSendCompleted /\ outcome.st = "ok") =>
    LET sent == outcome.val.args
    IN /\ outcome.val.data = encodeFunctionData(tx.method, sent)
       /\ IF /\ tx.method = "multicall"
             /\ tx.args # <<>>
             /\ tx.args[1].isArray
             /\ tx.args[1].items # <<>>
          THEN /\ Len(sent) = Len(tx.args)
               /\ \A j \in 2..Len(sent) : sent[j] = tx.args[j]
               /\ sent[1].isArray
               /\ Len(sent[1].items) = Len(tx.args[1].items)
               /\ \A i \in 1..Len(sent[1].items) :
                    sent[1].items[i] = tx.args[1].items[i] \o SignerAddress
          ELSE sent = tx.args

\* C16 witness: a multicall of two inner calls with a `from` override has
\* been relayed with the signer's address appended to both.
C16_TwoInnerCallsPacked ==
  /\ GaslessSendCompleted
  /\ outcome.st = "ok"
  /\ tx.overrides.from = "0xF"
  /\ outcome.val.args[1].items = <<"0xaa0xS", "0xbb0xS">>
  /\ outcome.val.data = "multicall:[<0xaa0xS><0xbb0xS>](0xT)"

-----------------------------------------------------------------------------
(* Claims about the fee policy.                                            *)

\* floor(amount / 100), pinned down by multiplication:
\* 100 * q <= amount < 100 * q + 100.
IsHundredth(q, amount) ==
  LET hundred == BNMul(BNMul(q, 10), 10)
  IN /\ ~BNGt(hundred, amount)
     /\ BNLt(amount, BNAdd(hundred, BNFrom(100)))

\* The amount plus the buffer the code adds: ten times the hundredth of the
\* amount, the division rounding down.
Buffered(amount) == BNAdd(amount, BNMul(BNDiv100(amount), 10))

MinPriorityFee == ParseGweiTenths(25)
MaxFee == ParseGweiTenths(3000)

\* getGasOverrides() has returned fee-market overrides on a chain outside
\* the gas-station subset.
FeeMarketQuote ==
  /\ outcome.op = "getGasOverrides"
  /\ outcome.st = "ok"
  /\ replies["getFeeData"].flag
  /\ replies["gas.getNetwork"].id \notin {Polygon, Mumbai}

\* C17 as stated: on the fee-market path of a chain outside the gas-station
\* subset the maxPriorityFeePerGas returned is the reported priority fee
\* plus 10%, to the wei above or below when that is not a whole number of
\* wei, brought into [2.5 gwei, 300 gwei]: it is always within the
\* interval, 1 gwei gives exactly 2.5 gwei and 1000 gwei gives exactly
\* 300 gwei.
C17_PriorityFeeTenPercent ==
  FeeMarketQuote =>
    LET reported == replies["getFeeData"].num
        returned == outcome.val.overrides.maxPriorityFeePerGas.num
    IN /\ IsSet(outcome.val.overrides.maxPriorityFeePerGas)
       /\ ~BNLt(returned, MinPriorityFee)
       /\ ~BNGt(returned, MaxFee)
       /\ IF BNGt(BNMul(reported, 11), BNMul(MaxFee, 10))
          THEN returned = MaxFee
          ELSE IF BNLt(BNMul(reported, 11), BNMul(MinPriorityFee, 10))
          THEN returned = MinPriorityFee
          ELSE /\ BNLt(BNMul(reported, 11), BNAdd(BNMul(returned, 10), BNFrom(10)))
               /\ BNLt(BNMul(returned, 10), BNAdd(BNMul(reported, 11), BNFrom(10)))
       /\ reported = ParseGweiTenths(10) => returned = ParseGweiTenths(25)
       /\ reported = ParseGweiTenths(10000) => returned = ParseGweiTenths(3000)

\* C17, amended: on the fee-market path of a chain outside the gas-station
\* subset the maxPriorityFeePerGas returned is the reported priority fee
\* plus ten times its rounded-down hundredth, brought into
\* [2.5 gwei, 300 gwei]: it is always within the interval, 1 gwei gives
\* exactly 2.5 gwei and 1000 gwei gives exactly 300 gwei; the buffered fee
\* is at most the reported fee plus 10% and less than 10 wei under it.
C17_PriorityFeeClamped ==
  FeeMarketQuote =>
    LET reported == replies["getFeeData"].num
        returned == outcome.val.overrides.maxPriorityFeePerGas.num
    IN /\ IsSet(outcome.val.overrides.maxPriorityFeePerGas)
       /\ IsHundredth(BNDiv100(reported), reported)
       /\ ~BNLt(returned, MinPriorityFee)
       /\ ~BNGt(returned, MaxFee)
       /\ returned = IF BNGt(Buffered(reported), MaxFee) THEN MaxFee
                     ELSE IF BNLt(Buffered(reported), MinPriorityFee)
                     THEN MinPriorityFee
                     ELSE Buffered(reported)
       /\ ~BNGt(BNMul(Buffered(reported), 10), BNMul(reported, 11))
       /\ BNLt(BNMul(reported, 11),
               BNAdd(BNMul(Buffered(reported), 10), BNFrom(100)))
       /\ reported = ParseGweiTenths(10) => returned = ParseGweiTenths(25)
       /\ reported = ParseGweiTenths(10000) => returned = ParseGweiTenths(3000)

\* A reported priority fee of 2,500,000,050 wei, which is within the
\* interval with its 10%, came back as 2,750,000,050 wei, 5 wei under the
\* reported fee plus 10%.
C17_RoundedBelowTenPercent ==
  /\ FeeMarketQuote
  /\ replies["getFeeData"].num = BN(25, 50)
  /\ outcome.val.overrides.maxPriorityFeePerGas.num = BN(27, 50000050)
  /\ BNMul(BN(25, 50), 11) = BNAdd(BNMul(BN(27, 50000050), 10), BNFrom(50))

\* A legacy gas price has been returned, by getGasPrice() itself or as the
\* gasPrice of getGasOverrides().
LegacyQuote ==
  /\ outcome.st = "ok"
  /\ \/ outcome.op = "getGasPrice"
     \/ outcome.op = "getGasOverrides" /\ ~replies["getFeeData"].flag

ReportedGasPrice == replies["getGasPrice"].num

ReturnedGasPrice ==
  IF outcome.op = "getGasPrice" THEN outcome.val.num
  ELSE outcome.val.overrides.gasPrice.num

\* C18 as stated: the legacy gas price returned is at least the reported
\* price times 1.10 and at most 300 gwei, and it is exactly 300 gwei when
\* the reported price times 1.10 exceeds 300 gwei.
C18_LegacyPriceInterval ==
  LegacyQuote =>
    /\ ~BNGt(ReturnedGasPrice, MaxFee)
    /\ IF BNGt(BNMul(ReportedGasPrice, 11), BNMul(MaxFee, 10))
       THEN ReturnedGasPrice = MaxFee
       ELSE ~BNLt(BNMul(ReturnedGasPrice, 10), BNMul(ReportedGasPrice, 11))

\* C18, amended: the legacy gas price returned is the reported price plus
\* ten times its rounded-down hundredth, capped at exactly 300 gwei; so it
\* is never above 300 gwei, never below the reported price unless capped,
\* and, when not capped, at most the reported price times 1.10 and less
\* than 10 wei under it.
C18_LegacyPriceBuffered ==
  LegacyQuote =>
    /\ IsHundredth(BNDiv100(ReportedGasPrice), ReportedGasPrice)
    /\ ~BNGt(ReturnedGasPrice, MaxFee)
    /\ IF BNGt(Buffered(ReportedGasPrice), MaxFee)
       THEN ReturnedGasPrice = MaxFee
       ELSE /\ ReturnedGasPrice = Buffered(ReportedGasPrice)
            /\ ~BNLt(ReturnedGasPrice, ReportedGasPrice)
            /\ ~BNGt(BNMul(ReturnedGasPrice, 10), BNMul(ReportedGasPrice, 11))
            /\ BNLt(BNMul(ReportedGasPrice, 11),
                    BNAdd(BNMul(ReturnedGasPrice, 10), BNFrom(100)))

\* A reported price of 3,000,000,050 wei came back as 3,300,000,050 wei,
\* 5 wei under the reported price times 1.10.
C18_RoundedBelowTenPercent ==
  /\ LegacyQuote
  /\ ReportedGasPrice = BN(30, 50)
  /\ ReturnedGasPrice = BN(33, 50)
  /\ BNLt(BNMul(ReturnedGasPrice, 10), BNMul(ReportedGasPrice, 11))

-----------------------------------------------------------------------------
(* Claims about execute().                                                 *)

\* The position of remote call `site` in the trace, 0 if it was not made.
Position(site) ==
  IF \E i \in 1..Len(trace) : trace[i] = site
  THEN CHOOSE i \in 1..Len(trace) : trace[i] = site
  ELSE 0

\* The replies received before remote call `site` was made.
RepliesBefore(site) ==
  [name \in {trace[i] : i \in 1..(Position(site) - 1)} |-> replies[name]]

\* The states of C19: in a run of execute(),
\*  - tx.wait() is called only when send(), replayed on the replies that
\*    came before it, has returned;
\*  - once the wait has failed the call does not complete before the static
\*    call of simulate() was made, after the wait, and then it completes
\*    with an error; with the queries of the diagnosis answered, the error
\*    is the diagnosis of the static call if that failed, of the wait
\*    failure otherwise;
\*  - a completion with a result has a successful wait behind it, and the
\*    result is the parsed receipt if a parse function is set when the
\*    receipt arrives, {receipt} otherwise.
ExecuteOrdered ==
  RunMethod = "execute" =>
    /\ "wait" \in DOMAIN replies =>
         /\ send(tx, isBrowser, RepliesBefore("wait")).st = "ok"
         /\ \A i \in 1..Len(trace) :
              i > Position("wait") =>
                trace[i] \in {"callStatic", "te.getNetwork", "te.getAddress",
                              DiagnosisFromTick, "te.fetchMetadata",
                              "te.fetchSources"}
    /\ "wait" \in Failed =>
         /\ "callStatic" \notin DOMAIN replies => ~Completed
         /\ "callStatic" \in DOMAIN replies =>
              Position("callStatic") = Position("wait") + 1
         /\ Completed =>
              /\ outcome.st = "err"
              /\ Failed \cap {"te.getNetwork", "te.getAddress"} = {} =>
                   /\ outcome.err.kind = "TransactionError"
                   /\ outcome.err.reason =
                        IF "callStatic" \in Failed THEN "callStatic" ELSE "wait"
    /\ (Completed /\ outcome.st = "ok") =>
         /\ "wait" \in DOMAIN replies
         /\ "wait" \notin Failed
         /\ trace[Len(trace)] = "wait"
         /\ outcome.val.kind = IF replies["wait"].this.parse THEN "parsed"
                                ELSE "receipt"

\* A result of execute() is handed over in one step only: the step that
\* completes the call, with the wait answered successfully.
ExecuteResultOnce ==
  (outcome' # outcome /\ outcome'.op = "execute" /\ outcome'.st = "ok") =>
    /\ op = "execute"
    /\ op' = "idle"
    /\ outcome.st = "none"
    /\ "wait" \in DOMAIN replies
    /\ replies["wait"].ok

\* C19: execute() waits for the receipt only after send() has returned; a
\* failed wait is followed by simulate() before any error is raised and an
\* error is always raised, the diagnosis of the simulation if it fails, of
\* the wait failure otherwise; a result is produced only when the wait
\* succeeds, once, and is the parsed receipt when a parse function is set,
\* {receipt} otherwise.
C19_ExecuteOrder == [](ExecuteOrdered) /\ [][ExecuteResultOnce]_vars

\* An execute() whose wait failed and whose simulation passed has raised
\* the diagnosis of the wait failure.
C19_WaitFailureDiagnosed ==
  /\ Completed
  /\ outcome.op = "execute"
  /\ "wait" \in Failed
  /\ "callStatic" \in DOMAIN replies
  /\ "callStatic" \notin Failed
  /\ outcome.st = "err"
  /\ outcome.err.kind = "TransactionError"
  /\ outcome.err.reason = "wait"

-----------------------------------------------------------------------------
(* Claims about the diagnosis.                                             *)

\* The enrichment of the diagnosis of the latest call has failed: fetching
\* the contract metadata, or fetching the source files, threw.
EnrichmentFailed ==
  Completed /\ Failed \cap {"te.fetchMetadata", "te.fetchSources"} # {}

\* transactionError has returned a TransactionError in the latest call: the
\* call has raised it, or has raised the promise of it and the promise has
\* resolved to it.
Diagnosed ==
  /\ outcome.st = "err"
  /\ \/ outcome.err.kind = "TransactionError"
     \/ outcome.err.kind = "Promise" /\ outcome.err.promise = "fulfilled"

\* this.overrides as transactionError finds it when it reads `from`: on
\* the reply of the network.
DiagnosisFromRead == replies["te.getNetwork"].this.overrides.from

\* this.overrides.value as transactionError finds it once the await of
\* `from` has resumed it: on the reply of the signer's address, or, when
\* `from` is set, on the turn of the run after the reply of the network.
DiagnosisValueRead ==
  IF DiagnosisFromRead = "" THEN replies["te.getAddress"].this.overrides.value
  ELSE replies[DiagnosisFromTick].this.overrides.value

\* transactionError has returned a structured transaction error whose fields
\* other than contractName, sources and hash are what it computes from the
\* builder as it finds it, the provider and the diagnosed error.
DiagnosisBuilt ==
  /\ Diagnosed
  /\ outcome.err.reason \in
       {"callStatic", "estimateGas", "submit", "wait", "insufficient funds"}
  /\ outcome.err.from = IF DiagnosisFromRead # "" THEN DiagnosisFromRead
                        ELSE SignerAddress
  /\ outcome.err.to = ContractAddress
  /\ outcome.err.method = tx.method
  /\ outcome.err.data = encodeFunctionData(tx.method, tx.args)
  /\ outcome.err.network = replies["te.getNetwork"].id
  /\ outcome.err.value = IF DiagnosisValueRead.set THEN DiagnosisValueRead.num
                         ELSE BN(0, 0)

\* C20 as stated: when fetching the contract metadata or the source files
\* throws, the structured transaction error is still returned with its other
\* fields, the hash among them, populated, and with contractName and sources
\* both absent.
C20_EnrichmentFailureLeavesBothAbsent ==
  EnrichmentFailed =>
    /\ DiagnosisBuilt
    /\ outcome.err.hash # ""
    /\ ~outcome.err.contractName
    /\ ~outcome.err.sources

\* C20, amended: when fetching the contract metadata or the source files
\* throws, the structured transaction error is still returned with reason,
\* from, to, method, data, network and value populated and with sources
\* absent; the hash is the one the diagnosed error carries, that of the
\* transaction whose wait failed, and is absent when it carries none, as
\* the error send() makes for insufficient funds;
\* contractName is absent when the metadata could not be fetched, and is
\* the name of the metadata fetched, if it has one, when only the source
\* files could not be.
C20_EnrichmentFailureSwallowed ==
  EnrichmentFailed =>
    /\ DiagnosisBuilt
    /\ outcome.err.hash =
         IF outcome.err.reason = "wait" THEN replies["wait"].s ELSE ""
    /\ ~outcome.err.sources
    /\ outcome.err.contractName =
         ("te.fetchMetadata" \notin Failed /\ replies["te.fetchMetadata"].id # 0)

\* A send failed for insufficient funds, an error that carries no hash, and
\* fetching the source files threw after the metadata had given a name: the
\* diagnosis was raised without a hash, with the name and without sources,
\* and with the value set while the diagnosis was at work.
C20_NameKeptWithoutSourcesOrHash ==
  /\ EnrichmentFailed
  /\ "te.fetchSources" \in Failed
  /\ outcome.err.kind = "TransactionError"
  /\ outcome.err.reason = "insufficient funds"
  /\ outcome.err.hash = ""
  /\ outcome.err.contractName
  /\ ~outcome.err.sources
  /\ ~replies["te.getNetwork"].this.overrides.value.set
  /\ outcome.err.value = BNFrom(3)

-----------------------------------------------------------------------------
(* Claims about a method the contract does not have.                       *)

\* The methods that begin with the check of the function, or with a call of
\* a method that does: every one but getGasPrice().
ChecksFunction ==
  {"simulate", "estimateGasLimit", "estimateGasCost", "send", "execute"}

\* C21: when the method of the builder is absent on the contract, a call of
\* simulate(), estimateGasLimit(), send() or execute() (and of
\* estimateGasCost(), which begins with estimateGasLimit()) makes no remote
\* call at all, never waits for one, and raises the function-not-found
\* error itself, not a diagnosis of it.
C21_FunctionNotFoundDirect ==
  (RunMethod \in ChecksFunction /\ ~HasFunction(tx)) =>
    /\ trace = <<>>
    /\ replies = NoReplies
    /\ op # "idle" =>
         /\ Run(op, tx, isBrowser, replies).st = "err"
         /\ Run(op, tx, isBrowser, replies).err = functionError
    /\ Completed =>
         /\ outcome.st = "err"
         /\ outcome.err = functionError

\* A send() on a builder with gasless options and a method the contract
\* does not have has raised function-not-found.
C21_GaslessSendOfMissingMethod ==
  /\ Completed
  /\ outcome.op = "send"
  /\ ~HasFunction(tx)
  /\ tx.gaslessOptions = "openzeppelin"
  /\ outcome.err.kind = "FunctionNotFound"
  /\ trace = <<>>

-----------------------------------------------------------------------------
(* Claims about encode().                                                  *)

\* Every call of encode() so far returned the same call data: the encoding
\* of the method and arguments the builder was made with and still has.
EncodeRepeatable ==
  encoded.latest.data # "" =>
    /\ encoded.latest.data = encoded.first.data
    /\ encoded.latest.data = encodeFunctionData(tx.method, tx.args)

\* No step changes the method, the arguments or the gasless options of the
\* builder; its overrides and its parse function change in the steps of the
\* setters only, which are no calls of encode(); a call of encode() changes
\* nothing of the builder or of the call in flight.
BuilderKept ==
  /\ tx'.method = tx.method
  /\ tx'.args = tx.args
  /\ tx'.gaslessOptions = tx.gaslessOptions
  /\ (tx'.overrides # tx.overrides \/ tx'.parse # tx.parse) =>
       (encoded' = encoded /\ op' = op /\ others' = others)
  /\ encoded' # encoded =>
       (tx' = tx /\ op' = op /\ replies' = replies /\ outcome' = outcome)

\* C22: encode() called any number of times returns identical call data,
\* before and after setOverrides, simulate, estimateGasLimit, send (direct
\* or gasless) and execute, and changes no builder state.
C22_EncodeRepeatable == [](EncodeRepeatable) /\ [][BuilderKept]_vars

\* encode() was first called before any call on a multicall builder, and
\* again after a send through the relay that packed the two inner calls: it
\* returned the same data, the inner calls not packed.
C22_SameDataAfterGaslessSend ==
  /\ encoded.first.after = "idle"
  /\ encoded.latest.after = "send"
  /\ outcome.st = "ok"
  /\ outcome.val.args # tx.args
  /\ encoded.latest.data = encoded.first.data
  /\ encoded.latest.data = "multicall:[<0xaa><0xbb>]"

-----------------------------------------------------------------------------
(* Claims about the two paths of send().                                   *)

\* The remote calls of the fee policy, of estimateGasLimit() and of the
\* direct submission with its catch.
DirectSites ==
  {"getFeeData", "gas.getNetwork", "getBlock", "getPolygonGasPriorityFee",
   "getGasPrice", "estimateGas", "submit", "send.getAddress"}
  \cup {BalanceOf(address) : address \in Addresses}

\* The remote calls of sendGasless(), the relay among them.
RelaySites ==
  {"gasless.pack.getAddress", "gasless.getNetwork", "gasless.getAddress",
   "gasless.estimateGas", "relay", "getTransaction"}

\* The remote calls the run has issued: those answered, the one it is
\* awaiting, and those of a diagnosis it left going on.
Issued ==
  DOMAIN replies
  \cup {trace[i] : i \in DOMAIN trace}
  \cup (IF op # "idle" /\ Run(op, tx, isBrowser, replies).st = "wait"
        THEN {Run(op, tx, isBrowser, replies).at}
        ELSE {})

\* C23: a send() (or the send() of an execute()) takes the gasless path if
\* and only if the builder has gasless options with the openzeppelin or the
\* biconomy key; on the gasless path no call of the fee policy, of
\* estimateGasLimit() or of the direct submission is issued, on the direct
\* path none of sendGasless(); the relay and the direct submission are
\* never both called.
C23_PathExclusive ==
  (RunMethod \in {"send", "execute"} /\ HasFunction(tx)) =>
    LET keyed == tx.gaslessOptions \in {"openzeppelin", "biconomy"}
    IN /\ keyed => Issued \cap DirectSites = {}
       /\ ~keyed => Issued \cap RelaySites = {}
       /\ ~({"relay", "submit"} \subseteq Issued)
       /\ (Issued # {}) =>
            (keyed <=> Issued \cap RelaySites # {})
       /\ (Completed /\ outcome.st = "ok") =>
            outcome.val.via = IF keyed THEN "relay" ELSE "direct"

\* A send() of a builder with the openzeppelin key has gone through the
\* relay and returned.
C23_SentThroughRelay ==
  /\ Completed
  /\ outcome.op = "send"
  /\ tx.gaslessOptions = "openzeppelin"
  /\ outcome.st = "ok"
  /\ outcome.val.via = "relay"
  /\ "relay" \in DOMAIN replies
  /\ "submit" \notin DOMAIN replies

-----------------------------------------------------------------------------
(* Claims about the cache key.                                             *)

\* C24 as stated: two http(s) resolutions whose (rpcUrl, chainId) pairs
\* differ, the chain id absent, 0, -1 or any other, never return the same
\* connection handle.
C24_DistinctPairsDistinctHandles ==
  \A e1 \in firstBatch, e2 \in firstBatch :
    (e1.rpcUrl # e2.rpcUrl \/ e1.chainId # e2.chainId) =>
      e1.provider.id # e2.provider.id

-----------------------------------------------------------------------------
(* Claims about the fallback endpoint.                                     *)

\* The API keys the latest getChainProvider call substituted with.
LastKeys ==
  LET options == SDKOptionsSchemaParse(last.sdkOptions)
  IN [THIRDWEB |-> IF options.thirdwebApiKey # "" THEN options.thirdwebApiKey
                   ELSE DEFAULT_API_KEY,
      INFURA |-> options.infuraApiKey,
      ALCHEMY |-> options.alchemyApiKey]

\* The latest call was a getChainProvider whose chain reference resolved to
\* a chain id (or to what getChainIdFromNetwork returned as one) the chain
\* table has no usable RPC URL for: no entry, or an entry the URL lookup
\* throws on.
NoUsableRpcUrl ==
  /\ last.fn = "getChainProvider"
  /\ last.lookedUp
  /\ \/ last.entry = <<>>
     \/ ~getChainRPC(last.entry, LastKeys).ok

\* C25: when the chain table has no usable RPC URL for the chain id a
\* reference resolved to, getChainProvider does not fail: it resolves to
\* https://<chainId>.rpc.thirdweb.com/<configured or default key> and
\* returns a connection to it; and no getChainProvider call ever raises
\* 'No rpc url found'.
C25_FallbackEndpoint ==
  /\ last.fn = "getChainProvider" => last.err # "No rpc url found"
  /\ NoUsableRpcUrl =>
       /\ last.ok
       /\ last.rpcUrl # ""
       /\ last.rpcUrl = "https://" \o JsToString(last.chainId) \o ".rpc.thirdweb.com/"
                        \o LastKeys.THIRDWEB
       /\ last.provider.url = last.rpcUrl

\* The URL lookup threw on the entry of chain 42, whose only endpoint needs
\* a key that is not configured: the call resolved to the templated
\* endpoint with the default key and returned a connection to it.
C25_LookupThrewFallsBack ==
  /\ NoUsableRpcUrl
  /\ last.entry # <<>>
  /\ last.chainId = Num(42)
  /\ last.ok
  /\ last.rpcUrl = "https://42.rpc.thirdweb.com/defaultkey"
  /\ last.provider.url = last.rpcUrl

=============================================================================
